---- MODULE Spec2Model ----
(***************************************************************************)
(* Model of the dependency checker action: the tag extractor               *)
(* (src/src/tag-extractor.ts), the status reconciler IssueUpdater          *)
(* (src/src/IssueUpdater.ts, the issue-based class at lines 378-701) and   *)
(* the run DependencyChecker.evaluate (src/src/DependencyChecker.ts,       *)
(* lines 31-303) over a small world of issues and pull requests.           *)
(***************************************************************************)
EXTENDS Integers, Sequences, FiniteSets, TLC

(***************************************************************************)
(* Bounds of the model.                                                    *)
(***************************************************************************)
MaxRuns == 2
MaxFaults == 1
MaxPairLen == 2

(***************************************************************************)
(* The world: two repositories, four tracked entities.                     *)
(***************************************************************************)
CtxRepo == [owner |-> "owner", repo |-> "repo"]
ExtRepo == [owner |-> "ext", repo |-> "lib"]

Tag(r, n) == [owner |-> r.owner, repo |-> r.repo, issue_number |-> n]

c1 == Tag(CtxRepo, 1)
c2 == Tag(CtxRepo, 2)
c3 == Tag(CtxRepo, 3)
x1 == Tag(ExtRepo, 1)

Ids == {c1, c2, c3, x1}

RepoOf(id) == [owner |-> id.owner, repo |-> id.repo]

\* Which entities are pull requests (the others are plain issues).
PullRequests == {c1, c3}

BLOCKED_LABEL == "blocked"
BLOCKING_LABEL == "blocking"
Labels == {BLOCKED_LABEL, BLOCKING_LABEL}

BOT_LOGIN == "github-actions[bot]"
Logins == {BOT_LOGIN, "pat-user"}

(***************************************************************************)
(* Sequence helpers.                                                       *)
(***************************************************************************)
Range(s) == {s[i] : i \in DOMAIN s}

RECURSIVE Flatten(_)
Flatten(ss) == IF ss = <<>> THEN <<>> ELSE Head(ss) \o Flatten(Tail(ss))

\* [...new Map(tags.map(tag => [key, tag])).values()]: one entry per key, at
\* the position of the key's first occurrence.
RECURSIVE UniqueTags(_)
UniqueTags(tags) ==
  IF tags = <<>> THEN <<>>
  ELSE LET rest == UniqueTags(SubSeq(tags, 1, Len(tags) - 1))
           last == tags[Len(tags)]
       IN IF last \in Range(rest) THEN rest ELSE Append(rest, last)

(***************************************************************************)
(* Issue bodies.  A body is a sequence of lines, a line a sequence of      *)
(* whitespace-separated tokens; a line that is empty after trimming is     *)
(* <<>>.  Tokens:                                                          *)
(*   [t |-> "key"]                  a configured key phrase and its colon  *)
(*   [t |-> "word"]                 any other text                         *)
(*   [t |-> "intra", n |-> 2]        #2                                    *)
(*   [t |-> "cross", r |-> R, n |-> 2]   owner/repo#2                      *)
(*   [t |-> "text", key |-> FALSE, a |-> atoms]   any other run of         *)
(*       characters without whitespace, as the sequence of its atoms; with *)
(*       key |-> TRUE the atoms follow a key phrase and its colon directly *)
(* An atom is a maximal run of letters ("L"), a maximal run of digits      *)
(* ("D", with its value) or a single other character (its class is the     *)
(* character).                                                             *)
(***************************************************************************)
KeyTok == [t |-> "key"]
WordTok == [t |-> "word"]
Intra(n) == [t |-> "intra", n |-> n]
Cross(r, n) == [t |-> "cross", r |-> r, n |-> n]

Patterns == <<"intraRepo", "crossRepo", "path", "url">>

Atom(c, s, n) == [c |-> c, s |-> s, n |-> n]
Letters(s) == Atom("L", s, 0)
Digits(n) == Atom("D", ToString(n), n)
Sym(s) == Atom(s, s, 0)
NoAtom == Atom("end", "", 0)

Text(atoms) == [t |-> "text", key |-> FALSE, a |-> atoms]
KeyGlued(atoms) == [t |-> "text", key |-> TRUE, a |-> atoms]

\* getIssueTypes(), the schemes of https?, and getHostName() without
\* GITHUB_SERVER_URL.
IssueTypes == {"issues", "pull"}
Schemes == {"http", "https"}
HostName == <<Letters("github"), Sym("."), Letters("com")>>

At(a, i) == IF i \in DOMAIN a THEN a[i] ELSE NoAtom

\* [\w.-] and \w
InName(x) == x.c \in {"L", "D", ".", "-"}
IsWordChar(x) == x.c \in {"L", "D"}

\* Where the run [\w.-]+ that starts at i ends; before i when there is none.
RECURSIVE RunEnd(_, _)
RunEnd(a, i) == IF InName(At(a, i)) THEN RunEnd(a, i + 1) ELSE i - 1

RECURSIVE NameOf(_, _, _)
NameOf(a, i, j) == IF i > j THEN "" ELSE a[i].s \o NameOf(a, i + 1, j)

NoMatch == [len |-> 0, tag |-> [owner |-> "", repo |-> "", issue_number |-> 0]]
Matched(len, owner, repo, n) ==
  [len |-> len, tag |-> [owner |-> owner, repo |-> repo, issue_number |-> n]]

\* A mistaken lookbehind: only the start and whitespace are accepted.
StartOKNoParen(tok, i) == i = 1 /\ ~tok.key

\* (?<=^|\s|\(): the match starts at the start of the token, which follows
\* whitespace or starts the block, or after an opening parenthesis.
StartOK(tok, i) == (i = 1 /\ ~tok.key) \/ At(tok.a, i - 1).c = "("

\* A mistaken lookahead: nothing is asked of what follows the number.
EndAny(a, j) == TRUE

\* (?=\b) after the digits that end at j: no word character follows.
EndOK(a, j) == ~IsWordChar(At(a, j + 1))

\* #(\d+)(?=\b)
MatchIntraRepo(a, i, ctx) ==
  IF At(a, i).c = "#" /\ At(a, i + 1).c = "D" /\ EndOK(a, i + 1)
  THEN Matched(2, ctx.owner, ctx.repo, a[i + 1].n)
  ELSE NoMatch

\* ([\w.-]+)\/([\w.-]+) from i: where the owner and the repo end, and
\* whether both are there.
OwnerEnd(a, i) == RunEnd(a, i)
RepoEnd(a, i) == RunEnd(a, RunEnd(a, i) + 2)
OwnerRepo(a, i, e1, e2) == e1 >= i /\ At(a, e1 + 1).c = "/" /\ e2 >= e1 + 2

\* ([\w.-]+)\/([\w.-]+)#(\d+)(?=\b), the owner ending at e1 and the repo
\* at e2
CrossRepoAt(a, i, e1, e2) ==
  IF /\ OwnerRepo(a, i, e1, e2)
     /\ At(a, e2 + 1).c = "#" /\ At(a, e2 + 2).c = "D" /\ EndOK(a, e2 + 2)
  THEN Matched(e2 + 3 - i, NameOf(a, i, e1), NameOf(a, e1 + 2, e2), a[e2 + 2].n)
  ELSE NoMatch

MatchCrossRepo(a, i) == CrossRepoAt(a, i, OwnerEnd(a, i), RepoEnd(a, i))

\* ([\w.-]+)\/([\w.-]+)\/(issues|pull)\/(\d+)(?=\b), the names from n on,
\* the owner ending at e1 and the repo at e2; the match itself starts at i.
PathAt(a, i, n, e1, e2) ==
  IF /\ OwnerRepo(a, n, e1, e2) /\ At(a, e2 + 1).c = "/"
     /\ At(a, e2 + 2).c = "L" /\ At(a, e2 + 2).s \in IssueTypes
     /\ At(a, e2 + 3).c = "/" /\ At(a, e2 + 4).c = "D" /\ EndOK(a, e2 + 4)
  THEN Matched(e2 + 5 - i, NameOf(a, n, e1), NameOf(a, e1 + 2, e2), a[e2 + 4].n)
  ELSE NoMatch

MatchPathFrom(a, i, n) == PathAt(a, i, n, OwnerEnd(a, n), RepoEnd(a, n))

MatchPath(a, i) == MatchPathFrom(a, i, i)

\* https?:\/\/host\/ and then as the path
MatchUrl(a, i) ==
  IF /\ At(a, i).c = "L" /\ At(a, i).s \in Schemes
     /\ At(a, i + 1).c = ":" /\ At(a, i + 2).c = "/" /\ At(a, i + 3).c = "/"
     /\ \A k \in DOMAIN HostName : At(a, i + 3 + k) = HostName[k]
     /\ At(a, i + 4 + Len(HostName)).c = "/"
  THEN MatchPathFrom(a, i, i + 5 + Len(HostName))
  ELSE NoMatch

MatchAt(a, i, pat, ctx) ==
  IF pat = "intraRepo" THEN MatchIntraRepo(a, i, ctx)
  ELSE IF pat = "crossRepo" THEN MatchCrossRepo(a, i)
  ELSE IF pat = "path" THEN MatchPath(a, i)
  ELSE MatchUrl(a, i)

\* matchAll of one pattern over a text token, from atom i on: the matches
\* from left to right, none overlapping another. After the match m at i the
\* search goes on behind it, and at i + 1 when there is none.
RECURSIVE Scan(_, _, _, _)
RECURSIVE ScanOn(_, _, _, _, _)
ScanOn(tok, i, pat, ctx, m) ==
  IF m.len > 0
  THEN <<[at |-> i, tag |-> m.tag]>> \o Scan(tok, i + m.len, pat, ctx)
  ELSE Scan(tok, i + 1, pat, ctx)

Scan(tok, i, pat, ctx) ==
  IF i > Len(tok.a) THEN <<>>
  ELSE ScanOn(tok, i, pat, ctx,
              IF StartOK(tok, i) THEN MatchAt(tok.a, i, pat, ctx) ELSE NoMatch)

\* The matches of one pattern inside one token: where each starts and the
\* tag its handler makes of it.
TokenMatches(tok, pat, ctx) ==
  IF tok.t = "intra" /\ pat = "intraRepo" THEN <<[at |-> 1, tag |-> Tag(ctx, tok.n)]>>
  ELSE IF tok.t = "cross" /\ pat = "crossRepo" THEN <<[at |-> 1, tag |-> Tag(tok.r, tok.n)]>>
  ELSE IF tok.t = "text" THEN Scan(tok, 1, pat, ctx)
  ELSE <<>>

TagsOf(ms) == [k \in DOMAIN ms |-> ms[k].tag]
TokenTags(tok, pat, ctx) == TagsOf(TokenMatches(tok, pat, ctx))

\* keyPhraseRegex.test(line): the trimmed line starts with a key phrase and
\* a colon.
IsKeyLine(line) ==
  /\ line # <<>>
  /\ \/ line[1].t = "key"
     \/ line[1].t = "text" /\ line[1].key

\* A mistaken loop: an empty line does not end the block.
RECURSIVE BlockFromNoReset(_, _)
BlockFromNoReset(lines, inside) ==
  IF lines = <<>> THEN <<>>
  ELSE LET line == Head(lines)
       IN IF line = <<>> THEN BlockFromNoReset(Tail(lines), inside)
          ELSE LET ins == inside \/ IsKeyLine(line)
               IN (IF ins THEN <<line>> ELSE <<>>) \o BlockFromNoReset(Tail(lines), ins)

RECURSIVE BlockFrom(_, _)
BlockFrom(lines, inside) ==
  IF lines = <<>> THEN <<>>
  ELSE LET line == Head(lines)
       IN IF line = <<>> THEN BlockFrom(Tail(lines), FALSE)
          ELSE LET ins == inside \/ IsKeyLine(line)
               IN (IF ins THEN <<line>> ELSE <<>>) \o BlockFrom(Tail(lines), ins)

extractDependencyBlock(commentBody) == BlockFrom(commentBody, FALSE)

MatchAll(block, pat, ctx) ==
  Flatten([i \in 1..Len(block) |->
             Flatten([j \in 1..Len(block[i]) |-> TokenTags(block[i][j], pat, ctx)])])

getDependencyTags(commentBody, ctx) ==
  LET block == extractDependencyBlock(commentBody)
  IN UniqueTags(Flatten([p \in 1..Len(Patterns) |-> MatchAll(block, Patterns[p], ctx)]))

(***************************************************************************)
(* Status comments.  A comment body is a sequence of lines; the lines the  *)
(* template produces are records.  A bullet line is                        *)
(*   - [PR|Issue #number](html_url) - title                                *)
(* and a title is one of                                                   *)
(*   "plain"   ordinary text                                               *)
(*   "bullet"  text that itself contains  - [PR #InjectedNumber](u/9)      *)
(*   "phrase"  text that ends with  the following dependents:              *)
(***************************************************************************)
InjectedNumber == 9
Titles == {"plain", "bullet", "phrase"}

IssueTypeOf(pr) == IF pr THEN "Pull Request" ELSE "Issue"

\* html_url of an entity: https://host/owner/repo/(pull|issues)/number
HtmlUrl(e) == [owner |-> e.id.owner, repo |-> e.id.repo,
               kind |-> IF e.pr THEN "pull" ELSE "issues", number |-> e.id.issue_number]

Bullet(e) == [k |-> "bullet", type |-> IF e.pr THEN "PR" ELSE "Issue",
              number |-> e.id.issue_number, url |-> HtmlUrl(e), title |-> e.title]

BlankLine == [k |-> "blank"]

createDependenciesMessage(issueType, dependencies) ==
  IF dependencies = <<>>
  THEN << [k |-> "depsResolved"], BlankLine, [k |-> "noDeps", type |-> issueType] >>
  ELSE << [k |-> "depsFound"], BlankLine, [k |-> "depsIntro", type |-> issueType], BlankLine >>
       \o [i \in 1..Len(dependencies) |-> Bullet(dependencies[i])]
       \o << BlankLine >>

createDependentsMessage(issueType, dependents) ==
  IF dependents = <<>>
  THEN << [k |-> "noDependents"], BlankLine, [k |-> "notBlocking", type |-> issueType] >>
  ELSE << [k |-> "dependentsFound"], BlankLine, [k |-> "dependentsIntro", type |-> issueType], BlankLine >>
       \o [i \in 1..Len(dependents) |-> Bullet(dependents[i])]
       \o << BlankLine >>

createCommentBody(issueType, dependencies, dependents) ==
  << [k |-> "signature"] >>
  \o createDependenciesMessage(issueType, dependencies)
  \o createDependentsMessage(issueType, dependents)
  \o << BlankLine, [k |-> "automated"], [k |-> "doNotEdit"] >>

\* body.includes(SIGNATURE)
HasSignature(body) == \E i \in DOMAIN body : body[i].k \in {"signature"}

\* The line ends with "the following dependents:" and a newline follows it.
EndsWithPhrase(body, i) ==
  /\ i < Len(body)
  /\ \/ body[i].k = "dependentsIntro"
     \/ body[i].k = "bullet" /\ body[i].title = "phrase"

\* A line that is exactly "---" with a line before and after it.
IsRule(body, i) == 1 < i /\ i < Len(body) /\ body[i].k = "rule"

\* The numbers the bullet pattern captures on one line of the block.
LineNumbers(line) ==
  IF line.k = "bullet"
  THEN <<line.number>> \o (IF line.title = "bullet" THEN <<InjectedNumber>> ELSE <<>>)
  ELSE <<>>

\* On the line that carries the phrase, only what follows the phrase is in
\* the block: nothing, as the phrase ends the line.
getDependentsTags(commentBody, ctx) ==
  LET starts == {i \in DOMAIN commentBody : EndsWithPhrase(commentBody, i)}
  IN IF starts = {} THEN <<>>
     ELSE LET s == CHOOSE i \in starts : \A j \in starts : i <= j
              rules == {i \in DOMAIN commentBody : i > s /\ IsRule(commentBody, i)}
              e == IF rules = {} THEN Len(commentBody)
                   ELSE (CHOOSE i \in rules : \A j \in rules : i <= j) - 1
              nums == Flatten([i \in 1..(e - s) |-> LineNumbers(commentBody[s + i])])
          IN UniqueTags([i \in 1..Len(nums) |-> Tag(ctx, nums[i])])

(***************************************************************************)
(* Comments on an entity and the last bot comment.                         *)
(***************************************************************************)
NoComment == [login |-> "none", body |-> <<>>]

IsBotComment(c) == c.login = BOT_LOGIN /\ HasSignature(c.body)

\* comments.slice().reverse().find(...)
LastBotOf(comms) ==
  LET idx == {i \in DOMAIN comms : IsBotComment(comms[i])}
  IN IF idx = {} THEN NoComment
     ELSE comms[CHOOSE i \in idx : \A j \in idx : j <= i]

(***************************************************************************)
(* State.                                                                  *)
(*  the remote world: state, body, comments and labels of every entity,    *)
(*    the login the token posts comments as, and whether the responses of  *)
(*    issues.get carry a `repository` member;                              *)
(*  one run of DependencyChecker.evaluate: its position pc, the context    *)
(*    repository, the payload issue, the parent updater's lists, the hop   *)
(*    in progress and its updater, and the outputs of the run;             *)
(*  observation: the last updateIssue call, the last fetch loop, the       *)
(*    entities reconciled and the faults met in the run.                   *)
(***************************************************************************)
VARIABLES state, body, comments, labels, tokenLogin, apiRepository,
          pc, ctx, issue, parentDeps, parentDependents, phase, idx, cur,
          failed, failMsgs, hasDepsOut, warnings,
          upd, prevUpd, fetchLog, reconciled, faultLog, runs, faults

world == <<state, body, comments, labels, tokenLogin, apiRepository>>
run == <<pc, ctx, issue, parentDeps, parentDependents, phase, idx, cur>>
outputs == <<failed, failMsgs, hasDepsOut, warnings>>
observed == <<upd, prevUpd, fetchLog, reconciled, faultLog>>
vars == <<world, run, outputs, observed, runs, faults>>

DependsOn(toks) == << <<KeyTok>> \o toks >>

\* The bodies an entity may have been given by its author.
BodyChoices(id) ==
  IF id = c1 THEN { <<>>,
                    DependsOn(<<Intra(2), Intra(3)>>),
                    DependsOn(<<Intra(1)>>),
                    DependsOn(<<Intra(4), Cross(ExtRepo, 1)>>),
                    << <<WordTok, Intra(3)>>, <<KeyTok, Intra(2)>>, <<Intra(2)>>, <<>>, <<Intra(3)>> >> }
  ELSE IF id = c2 THEN { <<>>, DependsOn(<<Intra(2), Cross(ExtRepo, 1)>>), DependsOn(<<Intra(1)>>) }
  ELSE IF id = c3 THEN { <<>>, DependsOn(<<Intra(1)>>) }
  ELSE { <<>> }

\* The body names an entity of another repository.
RefersAbroad(b) == \E i \in DOMAIN b : \E j \in DOMAIN b[i] : b[i][j].t = "cross"

\* The entities that receive events, and those somebody closes.
Triggers == {c1, c2, c3}
Closable == {c1, c2}

\* An entity as returned by issues.get, and as carried by the event payload.
Snap(id) == [id |-> id, pr |-> id \in PullRequests, title |-> "plain",
             state |-> state[id], labels |-> labels[id], repository |-> apiRepository]
Payload(id) == [Snap(id) EXCEPT !.repository = FALSE]
FailedFetch(tag) == [id |-> tag, pr |-> FALSE, title |-> "plain",
                     state |-> "failed", labels |-> {}, repository |-> FALSE]

NoIssue == FailedFetch(c1)
NoError == [type |-> "none", number |-> 0, original |-> [op |-> "none", labels |-> <<>>]]
NoCur == [dependencies |-> <<>>, dependents |-> <<>>]
NoPrev == [valid |-> FALSE, entity |-> c1, dependencies |-> <<>>, dependents |-> <<>>,
           posted |-> FALSE, subject |-> FALSE]
NoUpd == [entity |-> c1, target |-> c1, dependencies |-> <<>>, dependents |-> <<>>,
          reqs |-> <<>>, ok |-> TRUE, posted |-> FALSE, changed |-> FALSE, hadBot |-> FALSE,
          listed |-> FALSE, before |-> <<>>, fault |-> "none",
          labelsAfter |-> {}, again |-> FALSE, prevPosted |-> FALSE, error |-> NoError,
          prev |-> NoPrev, currentLabels |-> {}]
NoFetch == [kind |-> "none", tags |-> <<>>, bad |-> {}, attempted |-> <<>>, warned |-> <<>>,
            out |-> <<>>]

Init ==
  /\ state = [id \in Ids |-> "open"]
  /\ body \in {b \in [Ids -> UNION {BodyChoices(id) : id \in Ids}] :
                 \A id \in Ids : b[id] \in BodyChoices(id)}
  /\ comments = [id \in Ids |-> <<>>]
  /\ labels = [id \in Ids |-> {}]
  /\ tokenLogin \in Logins
  /\ apiRepository \in (IF \E id \in Ids : RefersAbroad(body[id]) THEN BOOLEAN ELSE {FALSE})
  /\ pc = "idle"
  /\ ctx = CtxRepo
  /\ issue = NoIssue
  /\ parentDeps = <<>>
  /\ parentDependents = <<>>
  /\ phase = "none"
  /\ idx = 0
  /\ cur = NoCur
  /\ failed = FALSE
  /\ failMsgs = {}
  /\ hasDepsOut = "unset"
  /\ warnings = {}
  /\ upd = NoUpd
  /\ prevUpd = [id \in Ids |-> NoPrev]
  /\ fetchLog = NoFetch
  /\ reconciled = <<>>
  /\ faultLog = {}
  /\ runs = 0
  /\ faults = 0

(***************************************************************************)
(* Fetching.                                                               *)
(***************************************************************************)
\* fetchIssue: issues.get answers for an entity that exists unless the
\* transport fails (the indices in bad); otherwise CheckerError.
fetchIssue(tag, fails) == IF tag \in Ids /\ ~fails THEN Snap(tag) ELSE FailedFetch(tag)

\* A mistaken loop: the try/catch around the whole loop, so that the first
\* failed fetch ends it.
RECURSIVE FetchLoopAbort(_, _, _)
FetchLoopAbort(tags, bad, i) ==
  IF i > Len(tags) THEN [out |-> <<>>, warned |-> <<>>, attempted |-> <<>>]
  ELSE LET got == fetchIssue(tags[i], i \in bad)
           rest == IF got.state = "failed"
                   THEN [out |-> <<>>, warned |-> <<>>, attempted |-> <<>>]
                   ELSE FetchLoopAbort(tags, bad, i + 1)
       IN [out |-> (IF got.state \notin {"closed", "failed"} THEN <<got>> ELSE <<>>) \o rest.out,
           warned |-> (IF got.state = "failed" THEN <<tags[i]>> ELSE <<>>) \o rest.warned,
           attempted |-> <<tags[i]>> \o rest.attempted]

\* A mistaken filter: closed entities are kept.
RECURSIVE FetchLoopKeepClosed(_, _, _)
FetchLoopKeepClosed(tags, bad, i) ==
  IF i > Len(tags) THEN [out |-> <<>>, warned |-> <<>>, attempted |-> <<>>]
  ELSE LET got == fetchIssue(tags[i], i \in bad)
           rest == FetchLoopKeepClosed(tags, bad, i + 1)
       IN [out |-> (IF got.state # "failed" THEN <<got>> ELSE <<>>) \o rest.out,
           warned |-> (IF got.state = "failed" THEN <<tags[i]>> ELSE <<>>) \o rest.warned,
           attempted |-> <<tags[i]>> \o rest.attempted]

\* The loop of getDependencies / getDependents over the tags, from index i:
\* the entities kept, the tags warned about and the tags fetched.
RECURSIVE FetchLoop(_, _, _)
FetchLoop(tags, bad, i) ==
  IF i > Len(tags) THEN [out |-> <<>>, warned |-> <<>>, attempted |-> <<>>]
  ELSE LET got == fetchIssue(tags[i], i \in bad)
           rest == FetchLoop(tags, bad, i + 1)
       IN [out |-> (IF got.state \notin {"closed", "failed"} THEN <<got>> ELSE <<>>) \o rest.out,
           warned |-> (IF got.state = "failed" THEN <<tags[i]>> ELSE <<>>) \o rest.warned,
           attempted |-> <<tags[i]>> \o rest.attempted]

\* The transport failures a fetch loop over these tags may meet.
BadSets(tags) ==
  {b \in SUBSET {i \in DOMAIN tags : tags[i] \in Ids} : Cardinality(b) <= MaxFaults - faults}

getDependencies(commentBody, bad) == FetchLoop(getDependencyTags(commentBody, ctx), bad, 1)
getDependents(commentBody, bad) == FetchLoop(getDependentsTags(commentBody, ctx), bad, 1)

WarnSet(kind, tags) == {[kind |-> kind, number |-> tags[i].issue_number] : i \in DOMAIN tags}

\* The filter of evaluate() that drops the entries whose number is the
\* payload issue's number.
NotCurrent(list) == SelectSeq(list, LAMBDA e : e.id.issue_number # issue.id.issue_number)
SkipWarnings(kind, list) ==
  {[kind |-> kind, number |-> issue.id.issue_number] :
     i \in {j \in DOMAIN list : list[j].id.issue_number = issue.id.issue_number}}

(***************************************************************************)
(* IssueUpdater.                                                           *)
(***************************************************************************)
\* getIssueInfo: the entity's own repository when the object carries a
\* `repository` member, the context repository otherwise.
getIssueInfo(iss) ==
  IF iss.repository THEN iss.id ELSE Tag(ctx, iss.id.issue_number)

Req(op, target, arg) == [op |-> op, target |-> target, arg |-> arg]

\* The faults one updateIssue call may meet: none, or the failure of one of
\* its requests.
UpdateFaults == {"none", "list", "post", "add", "removeBlocked", "removeBlocking"}

\* One listComments request without a page parameter answers with the first
\* page: the oldest PER_PAGE comments of the entity.
PER_PAGE == 30
FirstPage(comms) == SubSeq(comms, 1, IF Len(comms) < PER_PAGE THEN Len(comms) ELSE PER_PAGE)

\* A mistaken catch: the failure of listComments is swallowed and answered
\* like an entity without comments.
findLastBotCommentSilent(iss, fails) ==
  LET target == getIssueInfo(iss)
  IN IF target \notin Ids \/ fails
     THEN [ok |-> TRUE, comment |-> NoComment]
     ELSE [ok |-> TRUE, comment |-> LastBotOf(FirstPage(comments[target]))]

\* findLastBotComment: listComments of the entity, then the last comment of
\* the bot that carries the signature.
findLastBotComment(iss, fails) ==
  LET target == getIssueInfo(iss)
  IN IF target \notin Ids \/ fails
     THEN [ok |-> FALSE, comment |-> NoComment]
     ELSE [ok |-> TRUE, comment |-> LastBotOf(FirstPage(comments[target]))]

\* The labels whose removeLabel request fails under fault f.
RemoveFails(f) ==
  IF f = "removeBlocked" THEN {BLOCKED_LABEL}
  ELSE IF f = "removeBlocking" THEN {BLOCKING_LABEL} ELSE {}

\* A mistaken loop: the first failed removal is thrown at once.
RECURSIVE removeLabelsFailFast(_, _, _, _)
removeLabelsFailFast(target, toRemove, labs, failing) ==
  IF toRemove = <<>> THEN [reqs |-> <<>>, labels |-> labs, errors |-> <<>>]
  ELSE LET label == Head(toRemove)
           fails == label \in failing
           rest == IF fails THEN [reqs |-> <<>>, labels |-> labs, errors |-> <<>>]
                   ELSE removeLabelsFailFast(target, Tail(toRemove), labs \ {label}, failing)
       IN [reqs |-> <<Req("removeLabel", target, label)>> \o rest.reqs,
           labels |-> rest.labels,
           errors |-> (IF fails THEN <<label>> ELSE <<>>) \o rest.errors]

\* removeLabels over the labels in order: the requests sent, the labels left
\* on the entity and the labels whose removal failed (the labels in failing;
\* a non-empty errors is the CheckerError thrown after the loop).  A label
\* that is not on the entity answers 404, which is skipped.
RECURSIVE removeLabels(_, _, _, _)
removeLabels(target, toRemove, labs, failing) ==
  IF toRemove = <<>> THEN [reqs |-> <<>>, labels |-> labs, errors |-> <<>>]
  ELSE LET label == Head(toRemove)
           fails == label \in failing
           rest == removeLabels(target, Tail(toRemove),
                                IF fails THEN labs ELSE labs \ {label}, failing)
       IN [reqs |-> <<Req("removeLabel", target, label)>> \o rest.reqs,
           labels |-> rest.labels,
           errors |-> (IF fails THEN <<label>> ELSE <<>>) \o rest.errors]

\* commentChanged: there is no last bot comment, or its body differs.
commentChanged(lastBotComment, newComment) ==
  lastBotComment = NoComment \/ lastBotComment.body # newComment

\* A mistaken branch: the resolved branch posts whether or not there is a
\* last bot comment.
ShouldPostAlways(hasDependencies, hasDependents, hadBot) == TRUE

\* A mistaken branch: the closing notice is never posted.
ShouldPostNoNotice(hasDependencies, hasDependents, hadBot) ==
  hasDependencies \/ hasDependents

\* Past the commentChanged test, postComment is called in the branch of open
\* dependencies or dependents, and in the resolved branch when there is a
\* last bot comment.
ShouldPost(hasDependencies, hasDependents, hadBot) ==
  hasDependencies \/ hasDependents \/ hadBot

\* The CheckerError that leaves updateIssue: its message names the type and
\* the number of the updater's issue, its originalError is the error that
\* handleDependencyUpdate threw (the failed request, and for removeLabels the
\* labels it names).
CheckerError(issueType, iss, op, errored) ==
  [type |-> issueType, number |-> iss.id.issue_number,
   original |-> [op |-> op, labels |-> errored]]

\* handleDependencyUpdate inside updateIssue, for the updater of iss with the
\* given lists, under fault f: the requests sent, the comments and labels of
\* the addressed entity afterwards, and whether updateIssue returned
\* normally.
updateIssue(iss, dependencies, dependents, f) ==
  LET target == getIssueInfo(iss)
      issueType == IssueTypeOf(iss.pr)
      hasDependencies == Len(dependencies) > 0
      hasDependents == Len(dependents) > 0
      found == findLastBotComment(iss, f = "list")
      lastBotComment == found.comment
      hadBot == lastBotComment # NoComment
      newComment == createCommentBody(issueType, dependencies, dependents)
      changed == commentChanged(lastBotComment, newComment)
      currentLabels == iss.labels
      labelsToAdd == (IF hasDependencies /\ BLOCKED_LABEL \notin currentLabels THEN <<BLOCKED_LABEL>> ELSE <<>>)
                     \o (IF hasDependents /\ BLOCKING_LABEL \notin currentLabels THEN <<BLOCKING_LABEL>> ELSE <<>>)
      labelsToRemove == (IF ~hasDependencies /\ BLOCKED_LABEL \in currentLabels THEN <<BLOCKED_LABEL>> ELSE <<>>)
                        \o (IF ~hasDependents /\ BLOCKING_LABEL \in currentLabels THEN <<BLOCKING_LABEL>> ELSE <<>>)
      listReq == <<Req("listComments", target, "")>>
      base == [target |-> target, changed |-> changed, hadBot |-> hadBot, listed |-> TRUE,
               reqs |-> listReq, ok |-> TRUE, posted |-> FALSE, error |-> NoError,
               comments |-> IF target \in Ids THEN comments[target] ELSE <<>>,
               labels |-> IF target \in Ids THEN labels[target] ELSE {}]
      wantsPost == ShouldPost(hasDependencies, hasDependents, hadBot)
      postReq == IF wantsPost THEN <<Req("createComment", target, "")>> ELSE <<>>
      posted == wantsPost /\ f # "post"
      afterPost == IF posted
                   THEN Append(base.comments, [login |-> tokenLogin, body |-> newComment])
                   ELSE base.comments
      adds == IF hasDependencies \/ hasDependents THEN labelsToAdd ELSE <<>>
      addReq == IF adds # <<>> THEN <<Req("addLabels", target, Range(adds))>> ELSE <<>>
      added == IF adds # <<>> /\ f # "add" THEN base.labels \cup Range(adds) ELSE base.labels
      removed == removeLabels(target, labelsToRemove, added, RemoveFails(f))
  IN IF ~found.ok
     THEN [base EXCEPT !.ok = FALSE, !.changed = FALSE, !.hadBot = FALSE, !.listed = FALSE,
                       !.error = CheckerError(issueType, iss, "listComments", <<>>)]
     ELSE IF ~changed THEN base
     ELSE IF wantsPost /\ f = "post"
          THEN [base EXCEPT !.ok = FALSE, !.reqs = listReq \o postReq,
                            !.error = CheckerError(issueType, iss, "createComment", <<>>)]
     ELSE IF adds # <<>> /\ f = "add"
          THEN [base EXCEPT !.ok = FALSE, !.reqs = listReq \o postReq \o addReq,
                            !.posted = posted, !.comments = afterPost,
                            !.error = CheckerError(issueType, iss, "addLabels", <<>>)]
     ELSE [base EXCEPT !.ok = removed.errors = <<>>,
                       !.error = IF removed.errors = <<>> THEN NoError
                                 ELSE CheckerError(issueType, iss, "removeLabel", removed.errors),
                       !.reqs = listReq \o postReq \o addReq \o removed.reqs,
                       !.posted = posted, !.comments = afterPost,
                       !.labels = removed.labels]

IdsOf(list) == [i \in DOMAIN list |-> list[i].id]

\* What is remembered of an updateIssue call: the call itself, the previous
\* call on the same entity, and whether it repeats that call with identical
\* lists.
UpdRecord(iss, dependencies, dependents, f, r) ==
  LET prev == IF r.target \in Ids THEN prevUpd[r.target] ELSE NoPrev
  IN [entity |-> iss.id, target |-> r.target,
      dependencies |-> dependencies, dependents |-> dependents,
      reqs |-> r.reqs, ok |-> r.ok, posted |-> r.posted, changed |-> r.changed,
      hadBot |-> r.hadBot, listed |-> r.listed,
      before |-> (IF r.target \in Ids THEN comments[r.target] ELSE <<>>), fault |-> f,
      labelsAfter |-> r.labels,
      again |-> /\ prev.valid
                /\ prev.entity = iss.id
                /\ prev.dependencies = IdsOf(dependencies)
                /\ prev.dependents = IdsOf(dependents),
      prevPosted |-> prev.posted, error |-> r.error, prev |-> prev,
      currentLabels |-> iss.labels]

\* A mistaken post: the new comment takes the place of the comments that
\* were there.
ApplyUpdateInPlace(iss, dependencies, dependents, f, r) ==
  /\ comments' = IF r.target \in Ids
                 THEN [comments EXCEPT ![r.target] =
                         IF r.posted THEN <<r.comments[Len(r.comments)]>> ELSE r.comments]
                 ELSE comments
  /\ labels' = IF r.target \in Ids THEN [labels EXCEPT ![r.target] = r.labels] ELSE labels
  /\ upd' = UpdRecord(iss, dependencies, dependents, f, r)
  /\ prevUpd' = IF r.target \in Ids
                THEN [prevUpd EXCEPT ![r.target] =
                        [valid |-> r.ok, entity |-> iss.id,
                         dependencies |-> IdsOf(dependencies),
                         dependents |-> IdsOf(dependents), posted |-> r.posted,
                         subject |-> iss.id = issue.id]]
                ELSE prevUpd
  /\ reconciled' = Append(reconciled, iss.id)
  /\ faults' = IF f = "none" THEN faults ELSE faults + 1

\* The effect of an updateIssue call on the world and on what is observed.
ApplyUpdate(iss, dependencies, dependents, f, r) ==
  /\ comments' = IF r.target \in Ids THEN [comments EXCEPT ![r.target] = r.comments] ELSE comments
  /\ labels' = IF r.target \in Ids THEN [labels EXCEPT ![r.target] = r.labels] ELSE labels
  /\ upd' = UpdRecord(iss, dependencies, dependents, f, r)
  /\ prevUpd' = IF r.target \in Ids
                THEN [prevUpd EXCEPT ![r.target] =
                        [valid |-> r.ok, entity |-> iss.id,
                         dependencies |-> IdsOf(dependencies),
                         dependents |-> IdsOf(dependents), posted |-> r.posted,
                         subject |-> iss.id = issue.id]]
                ELSE prevUpd
  /\ reconciled' = Append(reconciled, iss.id)
  /\ faults' = IF f = "none" THEN faults ELSE faults + 1

FaultChoices == IF faults < MaxFaults THEN UpdateFaults ELSE {"none"}

(***************************************************************************)
(* DependencyChecker.evaluate, one action per awaited group.               *)
(***************************************************************************)
\* The catch of evaluate(): setFailed("Dependency check failed: ...").
Caught(kind) ==
  /\ failed' = TRUE
  /\ failMsgs' = failMsgs \cup {"check failed"}
  /\ faultLog' = faultLog \cup {kind}
  /\ pc' = "done"

\* A triggering event on entity id: the constructor validates the context and
\* keeps the payload issue.
Start(id) ==
  /\ pc \in {"idle", "done"}
  /\ runs < MaxRuns
  /\ runs' = runs + 1
  /\ pc' = "getDependencies"
  /\ ctx' = RepoOf(id)
  /\ issue' = Payload(id)
  /\ parentDeps' = <<>>
  /\ parentDependents' = <<>>
  /\ phase' = "none"
  /\ idx' = 0
  /\ cur' = NoCur
  /\ failed' = FALSE
  /\ failMsgs' = {}
  /\ hasDepsOut' = "unset"
  /\ warnings' = {}
  /\ reconciled' = <<>>
  /\ faultLog' = {}
  /\ fetchLog' = NoFetch
  /\ UNCHANGED <<world, upd, prevUpd, faults>>

\* A mistaken validation: the failure is reported and the run goes on.
StartInvalidProceeds ==
  /\ pc \in {"idle", "done"}
  /\ runs < MaxRuns
  /\ runs' = runs + 1
  /\ pc' = "getDependencies"
  /\ issue' = NoIssue
  /\ parentDeps' = <<>>
  /\ parentDependents' = <<>>
  /\ phase' = "none"
  /\ idx' = 0
  /\ cur' = NoCur
  /\ failed' = TRUE
  /\ failMsgs' = {"not supported"}
  /\ hasDepsOut' = "unset"
  /\ warnings' = {}
  /\ reconciled' = <<>>
  /\ faultLog' = {"config"}
  /\ fetchLog' = NoFetch
  /\ UNCHANGED <<world, ctx, upd, prevUpd, faults>>

\* An event whose name is neither pull_request nor issues, or whose payload
\* has no issue: validateContext throws in the constructor and run() reports
\* the failure.
StartInvalid ==
  /\ pc \in {"idle", "done"}
  /\ runs < MaxRuns
  /\ runs' = runs + 1
  /\ pc' = "done"
  /\ issue' = NoIssue
  /\ parentDeps' = <<>>
  /\ parentDependents' = <<>>
  /\ phase' = "none"
  /\ idx' = 0
  /\ cur' = NoCur
  /\ failed' = TRUE
  /\ failMsgs' = {"not supported"}
  /\ hasDepsOut' = "unset"
  /\ warnings' = {}
  /\ reconciled' = <<>>
  /\ faultLog' = {"config"}
  /\ fetchLog' = NoFetch
  /\ UNCHANGED <<world, ctx, upd, prevUpd, faults>>

\* 'Getting Dependencies...' of the payload issue.
SubjectGetDependencies ==
  /\ pc = "getDependencies"
  /\ LET tags == getDependencyTags(body[issue.id], ctx)
     IN \E bad \in BadSets(tags) :
          LET r == getDependencies(body[issue.id], bad)
          IN /\ parentDeps' = NotCurrent(r.out)
             /\ warnings' = warnings \cup WarnSet("dependency", r.warned)
                                     \cup SkipWarnings("skip dependency", r.out)
             /\ fetchLog' = [kind |-> "dependency", tags |-> tags, bad |-> bad,
                             attempted |-> r.attempted,
                             warned |-> r.warned, out |-> r.out]
             /\ faults' = faults + Cardinality(bad)
             /\ faultLog' = IF r.warned # <<>> THEN faultLog \cup {"fetch"} ELSE faultLog
  /\ pc' = "getDependents"
  /\ UNCHANGED <<world, ctx, issue, parentDependents, phase, idx, cur,
                 failed, failMsgs, hasDepsOut, upd, prevUpd, reconciled, runs>>

\* 'Getting Dependents...' of the payload issue, from its last bot comment.
SubjectGetDependents ==
  /\ pc = "getDependents"
  /\ \E fails \in {FALSE} \cup {faults < MaxFaults} :
       LET found == findLastBotComment(issue, fails)
       IN IF ~found.ok
          THEN /\ Caught("subject")
               /\ faults' = IF fails THEN faults + 1 ELSE faults
               /\ UNCHANGED <<parentDependents, warnings, fetchLog, hasDepsOut>>
          ELSE LET tags == getDependentsTags(found.comment.body, ctx)
               IN \E bad \in BadSets(tags) :
                    LET r == getDependents(found.comment.body, bad)
                    IN /\ parentDependents' = NotCurrent(r.out)
                       /\ warnings' = warnings \cup WarnSet("dependent", r.warned)
                                               \cup SkipWarnings("skip dependent", r.out)
                       /\ fetchLog' = [kind |-> "dependent", tags |-> tags, bad |-> bad,
                                       attempted |-> r.attempted,
                                       warned |-> r.warned, out |-> r.out]
                       /\ faults' = faults + Cardinality(bad)
                       /\ faultLog' = IF r.warned # <<>> THEN faultLog \cup {"fetch"} ELSE faultLog
                       /\ pc' = "update"
                       /\ UNCHANGED <<failed, failMsgs, hasDepsOut>>
  /\ UNCHANGED <<world, ctx, issue, parentDeps, phase, idx, cur,
                 upd, prevUpd, reconciled, runs>>

\* Where the run goes once the payload issue has been updated, and after
\* each hop: the next element of the list, or past the loop.
EnterDependencies ==
  IF parentDeps # <<>>
  THEN /\ phase' = "dependency" /\ idx' = 1 /\ pc' = "hopDependencies"
  ELSE /\ phase' = "none" /\ idx' = 0 /\ pc' = "report"

\* 'Updating current ...': updateIssue of the parent updater.
SubjectUpdate ==
  /\ pc = "update"
  /\ \E f \in FaultChoices :
       LET r == updateIssue(issue, parentDeps, parentDependents, f)
       IN /\ ApplyUpdate(issue, parentDeps, parentDependents, f, r)
          /\ IF r.ok
             THEN /\ EnterDependencies
                  /\ UNCHANGED <<failed, failMsgs, faultLog>>
             ELSE /\ Caught("subject")
                  /\ UNCHANGED <<phase, idx>>
  /\ cur' = NoCur
  /\ UNCHANGED <<state, body, tokenLogin, apiRepository, ctx, issue, parentDeps,
                 parentDependents, hasDepsOut, warnings, fetchLog, runs>>

\* The list of the hop in progress.
HopList == IF phase = "dependency" THEN parentDeps ELSE parentDependents

\* A mistaken fan-out: the hop goes on to what the element itself depends
\* on, when it depends on something.
HopIssueTwoHops ==
  LET own == FetchLoop(getDependencyTags(body[HopList[idx].id], ctx), {}, 1).out
  IN IF own # <<>> THEN own[1] ELSE HopList[idx]

\* A mistaken loop: the list is walked from its end.
HopIssueReversed == HopList[Len(HopList) + 1 - idx]

\* The element of the hop in progress.
HopIssue == HopList[idx]

\* 'Getting Dependencies...' of a dependency or dependent.
HopGetDependencies ==
  /\ pc = "hopDependencies"
  /\ LET tags == getDependencyTags(body[HopIssue.id], ctx)
     IN \E bad \in BadSets(tags) :
          LET r == getDependencies(body[HopIssue.id], bad)
          IN /\ cur' = [dependencies |-> r.out, dependents |-> <<>>]
             /\ warnings' = warnings \cup WarnSet("dependency", r.warned)
             /\ fetchLog' = [kind |-> "dependency", tags |-> tags, bad |-> bad,
                             attempted |-> r.attempted,
                             warned |-> r.warned, out |-> r.out]
             /\ faults' = faults + Cardinality(bad)
             /\ faultLog' = IF r.warned # <<>> THEN faultLog \cup {"fetch"} ELSE faultLog
  /\ pc' = "hopDependents"
  /\ UNCHANGED <<world, ctx, issue, parentDeps, parentDependents, phase, idx,
                 failed, failMsgs, hasDepsOut, upd, prevUpd, reconciled, runs>>

\* 'Getting Dependents...' of a dependency or dependent; a dependency without
\* a bot comment gets the payload issue as its first dependent.
HopGetDependents ==
  /\ pc = "hopDependents"
  /\ \E fails \in {FALSE} \cup {faults < MaxFaults} :
       LET found == findLastBotComment(HopIssue, fails)
       IN IF ~found.ok
          THEN /\ Caught("hop")
               /\ faults' = IF fails THEN faults + 1 ELSE faults
               /\ UNCHANGED <<cur, warnings, fetchLog, hasDepsOut>>
          ELSE LET tags == getDependentsTags(found.comment.body, ctx)
               IN \E bad \in BadSets(tags) :
                    LET r == getDependents(found.comment.body, bad)
                    IN /\ cur' = [cur EXCEPT !.dependents =
                                    IF phase = "dependency" /\ found.comment = NoComment
                                    THEN <<issue>> \o r.out ELSE r.out]
                       /\ warnings' = warnings \cup WarnSet("dependent", r.warned)
                       /\ fetchLog' = [kind |-> "dependent", tags |-> tags, bad |-> bad,
                                       attempted |-> r.attempted,
                                       warned |-> r.warned, out |-> r.out]
                       /\ faults' = faults + Cardinality(bad)
                       /\ faultLog' = IF r.warned # <<>> THEN faultLog \cup {"fetch"} ELSE faultLog
                       /\ pc' = "hopUpdate"
                       /\ UNCHANGED <<failed, failMsgs, hasDepsOut>>
  /\ UNCHANGED <<world, ctx, issue, parentDeps, parentDependents, phase, idx,
                 upd, prevUpd, reconciled, runs>>

\* 'Updating dependency/dependent #n...': updateIssue of the hop's updater.
HopUpdate ==
  /\ pc = "hopUpdate"
  /\ \E f \in FaultChoices :
       LET r == updateIssue(HopIssue, cur.dependencies, cur.dependents, f)
       IN /\ ApplyUpdate(HopIssue, cur.dependencies, cur.dependents, f, r)
          /\ IF ~r.ok
             THEN /\ Caught("hop")
                  /\ UNCHANGED <<phase, idx>>
             ELSE /\ UNCHANGED <<failed, failMsgs, faultLog>>
                  /\ IF idx < Len(HopList)
                     THEN /\ idx' = idx + 1 /\ pc' = "hopDependencies" /\ phase' = phase
                     ELSE /\ idx' = 0
                          /\ phase' = "none"
                          /\ pc' = IF phase = "dependency" THEN "report" ELSE "finish"
  /\ cur' = NoCur
  /\ UNCHANGED <<state, body, tokenLogin, apiRepository, ctx, issue, parentDeps,
                 parentDependents, hasDepsOut, warnings, fetchLog, runs>>

\* After the dependency loop: setFailed and has-dependencies=true when the
\* parent has dependencies, the notice and has-dependencies=false otherwise;
\* then on to the dependents.
Report ==
  /\ pc = "report"
  /\ IF Len(parentDeps) > 0
     THEN /\ failed' = TRUE
          /\ failMsgs' = failMsgs \cup {"must be resolved"}
          /\ hasDepsOut' = "true"
     ELSE /\ hasDepsOut' = "false"
          /\ UNCHANGED <<failed, failMsgs>>
  /\ IF parentDependents # <<>>
     THEN /\ phase' = "dependent" /\ idx' = 1 /\ pc' = "hopDependencies"
     ELSE /\ phase' = "none" /\ idx' = 0 /\ pc' = "finish"
  /\ UNCHANGED <<world, ctx, issue, parentDeps, parentDependents, cur, warnings,
                 observed, runs, faults>>

\* summary.write() and the end of evaluate().
Finish ==
  /\ pc = "finish"
  /\ pc' = "done"
  /\ UNCHANGED <<world, ctx, issue, parentDeps, parentDependents, phase, idx, cur,
                 outputs, observed, runs, faults>>

\* Between runs somebody closes an entity.
CloseIssue(id) ==
  /\ pc \in {"idle", "done"}
  /\ runs < MaxRuns
  /\ state[id] = "open"
  /\ state' = [state EXCEPT ![id] = "closed"]
  /\ UNCHANGED <<body, comments, labels, tokenLogin, apiRepository, run, outputs,
                 observed, runs, faults>>

Next ==
  \/ \E id \in Triggers : Start(id)
  \/ StartInvalid
  \/ SubjectGetDependencies
  \/ SubjectGetDependents
  \/ SubjectUpdate
  \/ HopGetDependencies
  \/ HopGetDependents
  \/ HopUpdate
  \/ Report
  \/ Finish
  \/ \E id \in Closable : CloseIssue(id)

Spec == Init /\ [][Next]_vars

(***************************************************************************)
(* Properties.                                                             *)
(***************************************************************************)
HasReq(op) == \E i \in DOMAIN upd.reqs : upd.reqs[i].op = op
Updated == reconciled # <<>>

\* C1 as stated, in the case where the first call posted the comment: when
\* updateIssue is called twice in a row on an entity with identical lists and
\* both calls return normally, the first call's post is the only one; the
\* second call posts no comment and sends no add-label or remove-label
\* request.
C1_SecondCallNoOp ==
  (Updated /\ upd.again /\ upd.ok /\ upd.prevPosted) =>
    /\ ~upd.posted
    /\ ~HasReq("createComment") /\ ~HasReq("addLabels") /\ ~HasReq("removeLabel")

\* C2: once the comments are listed, postComment is called if and only if
\* the comment changed (no last bot comment, or a body other than the one
\* rendered now) and a list is non-empty or a last bot comment exists; the
\* comment that is posted is the rendered one, and nothing else is added.
C2_PostDecision ==
  (Updated /\ upd.listed) =>
    LET last == LastBotOf(upd.before)
        new == createCommentBody(IssueTypeOf(upd.entity \in PullRequests),
                                 upd.dependencies, upd.dependents)
        changed == last = NoComment \/ last.body # new
        any == upd.dependencies # <<>> \/ upd.dependents # <<>>
        after == comments[upd.target]
    IN /\ HasReq("createComment") <=> (changed /\ (any \/ last # NoComment))
       /\ (~any /\ last = NoComment) => ~upd.posted
       /\ upd.posted <=> (HasReq("createComment") /\ upd.fault # "post")
       /\ IF upd.posted THEN after = Append(upd.before, [login |-> tokenLogin, body |-> new])
                        ELSE after = upd.before

\* The closing notice: both lists empty, a bot comment existed, and the
\* comment was posted.
C2_Witness ==
  /\ Updated /\ upd.listed /\ upd.posted
  /\ upd.dependencies = <<>> /\ upd.dependents = <<>>
  /\ LastBotOf(upd.before) # NoComment

\* C3 as stated: after an updateIssue call that returns normally the entity
\* carries "blocked" exactly when its dependency list is non-empty and
\* "blocking" exactly when its dependent list is non-empty.
C3_LabelsFollowLists ==
  (Updated /\ upd.ok) =>
    /\ (BLOCKED_LABEL \in labels[upd.entity]) <=> (upd.dependencies # <<>>)
    /\ (BLOCKING_LABEL \in labels[upd.entity]) <=> (upd.dependents # <<>>)

\* The related entity whose hop failed, when the run ended in a hop.
HopFailedAt(list, name) == {i \in DOMAIN list : phase = name /\ i = idx}

\* C4 as stated: when the hop of a related entity fails, every other
\* dependency and dependent is still updated in the run and the run is not
\* marked failed for it.
C4_HopFailureIsolated ==
  (pc = "done" /\ "hop" \in faultLog) =>
    /\ \A i \in DOMAIN parentDeps \ HopFailedAt(parentDeps, "dependency") :
         parentDeps[i].id \in Range(reconciled)
    /\ \A i \in DOMAIN parentDependents \ HopFailedAt(parentDependents, "dependent") :
         parentDependents[i].id \in Range(reconciled)
    /\ "check failed" \notin failMsgs

\* The fetch of tag i of the last loop failed.
FetchFailedAt(i) == i \in fetchLog.bad \/ fetchLog.tags[i] \notin Ids

\* C5: in a fetch loop every tag is fetched, whatever failed before it; a tag
\* whose fetch fails is warned about and left out of the result, every tag
\* whose fetch succeeds on an open entity is in the result; and a run whose
\* only faults are failed fetches fails only for open dependencies.
C5_FetchFailureIsolated ==
  /\ (fetchLog.kind # "none" /\ pc \notin {"idle", "done"}) =>
       /\ fetchLog.attempted = fetchLog.tags
       /\ \A i \in DOMAIN fetchLog.tags :
            IF FetchFailedAt(i)
            THEN /\ fetchLog.tags[i] \notin Range(IdsOf(fetchLog.out))
                 /\ [kind |-> fetchLog.kind, number |-> fetchLog.tags[i].issue_number] \in warnings
            ELSE state[fetchLog.tags[i]] = "open" <=>
                   fetchLog.tags[i] \in Range(IdsOf(fetchLog.out))
  /\ (pc = "done" /\ faultLog = {"fetch"} /\ parentDeps = <<>>) => ~failed

\* A failed fetch followed, in the same loop, by a reference that was fetched
\* and kept.
C5_Witness ==
  /\ fetchLog.kind = "dependency" /\ pc \notin {"idle", "done"}
  /\ \E i, j \in DOMAIN fetchLog.tags :
       /\ i < j /\ FetchFailedAt(i)
       /\ fetchLog.tags[j] \in Range(IdsOf(fetchLog.out))

\* C6 as stated: the lists handed to updateIssue never contain the entity
\* being reconciled.
C6_NoSelfReference ==
  Updated =>
    /\ upd.entity \notin Range(IdsOf(upd.dependencies))
    /\ upd.entity \notin Range(IdsOf(upd.dependents))

\* C7 as stated: every member of the lists handed to updateIssue was seen
\* open in the run.
C7_NoClosedMember ==
  Updated =>
    /\ \A i \in DOMAIN upd.dependencies : upd.dependencies[i].state = "open"
    /\ \A i \in DOMAIN upd.dependents : upd.dependents[i].state = "open"

\* C9 as stated: a run that got past the validation of its context has set
\* has-dependencies, to true exactly when the payload issue has an open
\* dependency.
C9_OutputSet ==
  (pc = "done" /\ "config" \notin faultLog) =>
    hasDepsOut = (IF parentDeps # <<>> THEN "true" ELSE "false")

\* C10 as stated: the run is marked failed exactly when the payload issue has
\* an open dependency, or the context was invalid, or the update of the
\* payload issue itself failed.
C10_FailureSignal ==
  pc = "done" =>
    (failed <=> (parentDeps # <<>> \/ "config" \in faultLog \/ "subject" \in faultLog))

\* The updateIssue calls a run makes when nothing stops it, in order.
Expected == <<issue.id>> \o IdsOf(parentDeps) \o IdsOf(parentDependents)

IsPrefix(a, b) == Len(a) <= Len(b) /\ SubSeq(b, 1, Len(a)) = a

\* C11: in a run the dependencies of the payload issue are extracted, then
\* its dependents, then the payload issue is reconciled, then each dependency
\* and then each dependent, one at a time and in the order of the lists; no
\* related entity is reconciled before the payload issue.
C11_Order ==
  [][/\ IsPrefix(reconciled', Expected')
     /\ (reconciled' # reconciled /\ reconciled' # <<>>) =>
          /\ Len(reconciled') = Len(reconciled) + 1
          /\ IsPrefix(reconciled, reconciled')
     /\ (reconciled = <<>> /\ reconciled' # <<>>) =>
          /\ fetchLog.kind = "dependent"
          /\ reconciled' = <<issue.id>>
     /\ (fetchLog'.kind = "dependent" /\ fetchLog.kind # "dependent") =>
          fetchLog.kind = "dependency"]_vars

\* A finished run that reconciled the payload issue, its dependencies and
\* its dependents.
C11_Witness ==
  /\ pc = "done" /\ parentDeps # <<>> /\ parentDependents # <<>>
  /\ reconciled = Expected

\* C12: a run makes at most 1 + |dependencies| + |dependents| updateIssue
\* calls, and only for the payload issue and the members of its two lists,
\* whatever the bodies of those members refer to.
C12_OneHop ==
  /\ Len(reconciled) <= 1 + Len(parentDeps) + Len(parentDependents)
  /\ Range(reconciled) \subseteq
       {issue.id} \cup Range(IdsOf(parentDeps)) \cup Range(IdsOf(parentDependents))

\* A finished run in which a reconciled dependency refers back to the
\* payload issue and on to an open entity that the run left alone.
C12_Witness ==
  /\ pc = "done" /\ reconciled = Expected
  /\ \E i \in 2..Len(reconciled) :
       LET tags == Range(getDependencyTags(body[reconciled[i]], ctx))
       IN /\ issue.id \in tags
          /\ \E t \in tags \cap Ids : state[t] = "open" /\ t \notin Range(reconciled)

\* C13 as stated, for a run in which no reference failed to be fetched and
\* the update of the payload issue succeeded: every open dependent recorded
\* in the last bot comment of the payload issue is reconciled in the run.
C13_DependentsUpdated ==
  (pc = "done" /\ faultLog \cap {"config", "subject", "fetch"} = {}) =>
    Len(reconciled) = 1 + Len(parentDeps) + Len(parentDependents)

\* C14 as stated: every request sent while reconciling an entity is
\* addressed to that entity's own owner, repository and number.
C14_OwnTarget ==
  Updated =>
    /\ upd.target = upd.entity
    /\ \A i \in DOMAIN upd.reqs : upd.reqs[i].target = upd.entity

\* C15: an event that fails the validation of the context marks the run
\* failed and ends it at once: nothing is fetched, listed, posted or
\* labelled.
C15_InvalidContextAborts ==
  []["config" \in faultLog' =>
       /\ pc' = "done" /\ failed' /\ failMsgs' = {"not supported"}
       /\ reconciled' = <<>> /\ fetchLog' = NoFetch /\ hasDepsOut' = "unset"
       /\ runs' # runs => UNCHANGED <<world, upd>>]_vars

\* An invalid event after a run that posted a comment.
C15_Witness ==
  /\ pc = "done" /\ "config" \in faultLog /\ runs = MaxRuns
  /\ \E id \in Ids : comments[id] # <<>>

\* The request of the last updateIssue call that failed, if one did.
FaultHit ==
  IF upd.fault = "list" THEN "listComments"
  ELSE IF upd.fault = "post" /\ HasReq("createComment") THEN "createComment"
  ELSE IF upd.fault = "add" /\ HasReq("addLabels") THEN "addLabels"
  ELSE IF \E i \in DOMAIN upd.reqs :
            upd.reqs[i].op = "removeLabel" /\ upd.reqs[i].arg \in RemoveFails(upd.fault)
       THEN "removeLabel"
  ELSE "none"

\* C17: updateIssue returns normally exactly when none of its requests
\* failed; otherwise it throws one CheckerError that names the type and the
\* number of the entity and carries the failure of that request.
C17_WrappedError ==
  Updated =>
    /\ upd.ok <=> FaultHit = "none"
    /\ upd.ok => upd.error = NoError
    /\ ~upd.ok =>
         /\ upd.error.type = IssueTypeOf(upd.entity \in PullRequests)
         /\ upd.error.number = upd.entity.issue_number
         /\ upd.error.original.op = FaultHit
         /\ FaultHit = "removeLabel" => Range(upd.error.original.labels) = RemoveFails(upd.fault)

\* The removal of a label failed after the closing notice was posted.
C17_Witness ==
  /\ Updated /\ ~upd.ok /\ upd.posted
  /\ upd.error.original.op = "removeLabel"

\* C18: the requests sent are listComments, createComment, addLabels and
\* removeLabel, the latter two for the labels "blocked" and "blocking" only;
\* a run never changes the state or the body of an entity, and the comments
\* of an entity only ever get a new comment appended.
C18_OnlyCommentsAndLabels ==
  [][/\ \A id \in Ids :
          /\ IsPrefix(comments[id], comments'[id])
          /\ labels'[id] \subseteq labels[id] \cup Labels
          /\ (pc \notin {"idle", "done"} \/ pc' # pc) => state'[id] = state[id]
     /\ body' = body
     /\ \A i \in DOMAIN upd'.reqs :
          LET r == upd'.reqs[i]
          IN /\ r.op \in {"listComments", "createComment", "addLabels", "removeLabel"}
             /\ r.op = "addLabels" => r.arg \subseteq Labels
             /\ r.op = "removeLabel" => r.arg \in Labels]_vars

\* An entity with two status comments, the older one still there, after an
\* entity was closed.
C18_Witness ==
  /\ \E id \in Ids : Len(comments[id]) >= 2 /\ comments[id][1] # comments[id][2]
  /\ \E id \in Ids : state[id] = "closed"

\* C20 as stated: when the previous updateIssue call on the entity had the
\* same lists and posted its comment, this call renders the same body and
\* does not see the comment as changed.
C20_RerunUnchanged ==
  (Updated /\ upd.again /\ upd.listed /\ upd.prevPosted) => ~upd.changed

\* A run is under way and has met no failure, and every entity the body of
\* its payload issue names is closed.
AllClosed ==
  /\ pc \notin {"idle", "done"} /\ faultLog = {}
  /\ \A t \in Range(getDependencyTags(body[issue.id], ctx)) \cap Ids : state[t] = "closed"

\* The payload issue has just been reconciled; it was reconciled before, as
\* the payload issue of a run that saw open dependencies, which are closed
\* by now.
ClosedSince ==
  /\ AllClosed /\ reconciled = <<issue.id>> /\ upd.entity = issue.id /\ upd.fault = "none"
  /\ upd.prev.subject /\ upd.prev.entity = issue.id /\ upd.prev.dependencies # <<>>

EmptyUpdate ==
  /\ Updated /\ upd.fault = "none" /\ upd.listed
  /\ upd.dependencies = <<>> /\ upd.dependents = <<>>
  /\ LastBotOf(upd.before) = NoComment

\* The run on an entity whose lists are empty is about to end without a
\* failure.
EmptyRun ==
  /\ pc = "finish" /\ faultLog = {} /\ parentDeps = <<>> /\ parentDependents = <<>>

StaleLabels(current) ==
  SelectSeq(<<BLOCKED_LABEL, BLOCKING_LABEL>>, LAMBDA l : l \in current)

FailureNumbers ==
  (IF "must be resolved" \in failMsgs THEN {issue.id.issue_number} ELSE {})
  \cup (IF "check failed" \in failMsgs
        THEN {IF phase = "none" THEN issue.id.issue_number ELSE HopIssue.id.issue_number}
        ELSE {})

\* C23 as stated: a run that ends with an open dependency of the payload
\* issue is marked failed with a text that names the payload issue and the
\* number of every open dependency.
C23_FailureMessage ==
  (pc = "done" /\ "config" \notin faultLog /\ parentDeps # <<>>) =>
    /\ failed
    /\ issue.id.issue_number \in FailureNumbers
    /\ \A i \in DOMAIN parentDeps : parentDeps[i].id.issue_number \in FailureNumbers

\* C29 as stated: the tags that getDependencyTags reads from the body of the
\* payload issue and those that getDependentsTags reads from its last bot
\* comment never hold the payload issue itself, and a warning tells of the
\* reference that was left out.
C29_ExtractorSkipsSelf ==
  (pc \in {"getDependents", "update"} /\ fetchLog.kind \in {"dependency", "dependent"}) =>
    /\ issue.id \notin Range(fetchLog.tags)
    /\ issue.id \in Range(getDependencyTags(body[issue.id], ctx))
         => [kind |-> "skip dependency", number |-> issue.id.issue_number] \in warnings

\* A dependency of the payload issue has just been reconciled in a run that
\* has met no failure, and the payload issue is open.
DependencyHopDone ==
  /\ pc \notin {"idle", "done"} /\ faultLog = {} /\ upd.fault = "none"
  /\ issue.state = "open"
  /\ Len(reconciled) >= 2 /\ Len(reconciled) <= 1 + Len(parentDeps)

\* C30 as stated: every open dependency of an open payload issue is
\* reconciled with a dependent list that holds the payload issue, whether or
\* not the dependency had a bot comment.
C30_DependencyKnowsDependent ==
  DependencyHopDone =>
    /\ upd.entity = parentDeps[Len(reconciled) - 1].id
    /\ issue.id \in Range(IdsOf(upd.dependents))

(***************************************************************************)
(* The status comment rendered and parsed back: createCommentBody on the   *)
(* lists of an updater, then getDependentsTags on the posted body.         *)
(***************************************************************************)
RoundTripIds == {c1, c2, x1}

\* The entities a list may hold: open, with any of the titles.
RoundTripPool ==
  {[id |-> id, pr |-> id \in PullRequests, title |-> t, state |-> "open",
    labels |-> {}, repository |-> FALSE] : id \in RoundTripIds, t \in Titles}

\* The lists of at most MaxPairLen entities, no entity twice.
RoundTripLists ==
  UNION {{l \in [1..n -> RoundTripPool] : \A i, j \in 1..n : i # j => l[i].id # l[j].id} :
           n \in 0..MaxPairLen}

InitRT ==
  /\ state = [id \in Ids |-> "open"]
  /\ body = [id \in Ids |-> <<>>]
  /\ comments = [id \in Ids |-> <<>>]
  /\ labels = [id \in Ids |-> {}]
  /\ tokenLogin = BOT_LOGIN
  /\ apiRepository = FALSE
  /\ pc = "render"
  /\ ctx \in {CtxRepo, ExtRepo}
  /\ issue \in {[id |-> Tag(ctx, 3), pr |-> pr, title |-> "plain", state |-> "open",
                 labels |-> {}, repository |-> FALSE] : pr \in BOOLEAN}
  /\ parentDeps \in RoundTripLists
  /\ parentDependents \in RoundTripLists
  /\ phase = "none"
  /\ idx = 0
  /\ cur = NoCur
  /\ failed = FALSE
  /\ failMsgs = {}
  /\ hasDepsOut = "unset"
  /\ warnings = {}
  /\ upd = NoUpd
  /\ prevUpd = [id \in Ids |-> NoPrev]
  /\ fetchLog = NoFetch
  /\ reconciled = <<>>
  /\ faultLog = {}
  /\ runs = 0
  /\ faults = 0

\* postComment(createCommentBody()) on the updater's entity.
RenderComment ==
  /\ pc = "render"
  /\ comments' = [comments EXCEPT ![c3] =
                    <<[login |-> tokenLogin,
                       body |-> createCommentBody(IssueTypeOf(issue.pr), parentDeps,
                                                  parentDependents)]>>]
  /\ pc' = "parse"
  /\ UNCHANGED <<state, body, labels, tokenLogin, apiRepository, ctx, issue, parentDeps,
                 parentDependents, phase, idx, cur, outputs, observed, runs, faults>>

\* getDependentsTags(lastBotComment.body).
ParseComment ==
  /\ pc = "parse"
  /\ fetchLog' = [NoFetch EXCEPT !.kind = "dependent",
                                 !.tags = getDependentsTags(LastBotOf(comments[c3]).body, ctx)]
  /\ pc' = "parsed"
  /\ UNCHANGED <<world, ctx, issue, parentDeps, parentDependents, phase, idx, cur,
                 outputs, upd, prevUpd, reconciled, faultLog, runs, faults>>

NextRT == RenderComment \/ ParseComment

SpecRT == InitRT /\ [][NextRT]_vars

\* C8 as stated: the tags parsed from the rendered comment are the
\* identities (owner, repo, number) of the dependents, and nothing of the
\* dependencies.
C8_RoundTrip ==
  pc = "parsed" =>
    /\ Range(fetchLog.tags) = Range(IdsOf(parentDependents))
    /\ Range(fetchLog.tags) \cap Range(IdsOf(parentDeps)) \subseteq Range(IdsOf(parentDependents))

(***************************************************************************)
(* removeLabels on its own: a list of labels to remove from an entity that *)
(* carries some of them, with any of the requests failing.                 *)
(***************************************************************************)
\* The lists removeLabels is given, and the requests of a list that fail.
RemoveLists ==
  {<<>>, <<BLOCKED_LABEL>>, <<BLOCKING_LABEL>>, <<BLOCKED_LABEL, BLOCKING_LABEL>>,
   <<BLOCKING_LABEL, BLOCKED_LABEL>>}

InitRL ==
  /\ state = [id \in Ids |-> "open"]
  /\ body = [id \in Ids |-> <<>>]
  /\ comments = [id \in Ids |-> <<>>]
  /\ tokenLogin = BOT_LOGIN
  /\ apiRepository = FALSE
  /\ pc = "remove"
  /\ ctx = CtxRepo
  /\ \E id \in {c1, c2}, labs \in SUBSET Labels :
       /\ labels = [i \in Ids |-> IF i = id THEN labs ELSE {}]
       /\ issue = [id |-> id, pr |-> id \in PullRequests, title |-> "plain",
                   state |-> "open", labels |-> labs, repository |-> FALSE]
  /\ parentDeps = <<>>
  /\ parentDependents = <<>>
  /\ phase = "none"
  /\ idx = 0
  /\ cur = NoCur
  /\ failed = FALSE
  /\ failMsgs = {}
  /\ hasDepsOut = "unset"
  /\ warnings = {}
  /\ upd = NoUpd
  /\ prevUpd = [id \in Ids |-> NoPrev]
  /\ \E toRemove \in RemoveLists, bad \in SUBSET (1..MaxPairLen) :
       /\ bad \subseteq DOMAIN toRemove
       /\ fetchLog = [NoFetch EXCEPT !.kind = "removeLabels", !.tags = toRemove, !.bad = bad]
  /\ reconciled = <<>>
  /\ faultLog = {}
  /\ runs = 0
  /\ faults = 0

\* removeLabels(labels) of the updater of issue: the requests it sends, the
\* labels left on the entity, and the error it throws.
RemoveLabelsCall ==
  /\ pc = "remove"
  /\ LET target == getIssueInfo(issue)
         r == removeLabels(target, fetchLog.tags, labels[target],
                           {fetchLog.tags[i] : i \in fetchLog.bad})
     IN /\ labels' = [labels EXCEPT ![target] = r.labels]
        /\ fetchLog' = [fetchLog EXCEPT !.attempted = [i \in DOMAIN r.reqs |-> r.reqs[i].arg],
                                        !.warned = r.errors]
        /\ failed' = (r.errors # <<>>)
        /\ upd' = [NoUpd EXCEPT !.entity = issue.id, !.target = target, !.reqs = r.reqs,
                                !.ok = (r.errors = <<>>),
                                !.error = IF r.errors = <<>> THEN NoError
                                          ELSE CheckerError(IssueTypeOf(issue.pr), issue,
                                                            "removeLabel", r.errors)]
  /\ pc' = "removed"
  /\ UNCHANGED <<state, body, comments, tokenLogin, apiRepository, ctx, issue, parentDeps,
                 parentDependents, phase, idx, cur, failMsgs, hasDepsOut, warnings,
                 prevUpd, reconciled, faultLog, runs, faults>>

NextRL == RemoveLabelsCall

SpecRL == InitRL /\ [][NextRL]_vars

\* C16: removeLabels sends a removal for every label of its list, in order,
\* whatever failed before; a label that is not on the entity (404) is no
\* error; it throws exactly when a removal failed, one error that names
\* exactly the labels whose removal failed; the other labels are off the
\* entity afterwards.
C16_RemoveLabels ==
  pc = "removed" =>
    LET tags == fetchLog.tags
        failing == {tags[i] : i \in fetchLog.bad}
    IN /\ fetchLog.attempted = tags
       /\ \A i \in DOMAIN upd.reqs : upd.reqs[i].op = "removeLabel" /\ upd.reqs[i].target = issue.id
       /\ fetchLog.warned = SelectSeq(tags, LAMBDA l : l \in failing)
       /\ failed <=> fetchLog.bad # {}
       /\ failed => upd.error.original.labels = fetchLog.warned
       /\ ~failed => upd.error = NoError
       /\ labels[issue.id] = issue.labels \ (Range(tags) \ failing)

\* The first removal failed, the second label was not on the entity, and
\* both were attempted.
C16_Witness ==
  /\ pc = "removed" /\ Len(fetchLog.tags) = 2
  /\ fetchLog.bad = {1} /\ fetchLog.tags[2] \notin issue.labels
  /\ Len(upd.reqs) = 2 /\ fetchLog.warned = <<fetchLog.tags[1]>>

(***************************************************************************)
(* findLastBotComment on its own: an entity with older comments of other   *)
(* people followed by comments of the bot and of others.                   *)
(***************************************************************************)
MaxPadding == 31
MaxTail == 2

HumanComment == [login |-> "pat-user", body |-> <<[k |-> "text"]>>]

\* n comments of other people.
Padding(n) == [i \in 1..n |-> HumanComment]

\* A status comment of the bot, another one, a comment of the bot without
\* the signature, and a status comment posted under another login.
CommentPool ==
  {[login |-> BOT_LOGIN, body |-> createCommentBody("Issue", <<>>, <<>>)],
   [login |-> BOT_LOGIN, body |-> createCommentBody("Pull Request", <<>>, <<>>)],
   [login |-> BOT_LOGIN, body |-> <<[k |-> "text"]>>],
   [login |-> "pat-user", body |-> createCommentBody("Issue", <<>>, <<>>)]}

InitFB ==
  /\ state = [id \in Ids |-> "open"]
  /\ body = [id \in Ids |-> <<>>]
  /\ \E n \in 0..MaxPadding, m \in 0..MaxTail : \E tail \in [1..m -> CommentPool] :
       comments = [id \in Ids |-> IF id = c1 THEN Padding(n) \o tail ELSE <<>>]
  /\ labels = [id \in Ids |-> {}]
  /\ tokenLogin = BOT_LOGIN
  /\ apiRepository = FALSE
  /\ pc = "find"
  /\ ctx = CtxRepo
  /\ issue = [id |-> c1, pr |-> TRUE, title |-> "plain", state |-> "open",
              labels |-> {}, repository |-> FALSE]
  /\ parentDeps = <<>>
  /\ parentDependents = <<>>
  /\ phase = "none"
  /\ idx = 0
  /\ cur = NoCur
  /\ failed = FALSE
  /\ failMsgs = {}
  /\ hasDepsOut = "unset"
  /\ warnings = {}
  /\ upd = NoUpd
  /\ prevUpd = [id \in Ids |-> NoPrev]
  /\ fetchLog = NoFetch
  /\ reconciled = <<>>
  /\ faultLog = {}
  /\ runs = 0
  /\ faults = 0

\* findLastBotComment(issue): what it returns, or that it threw.
FindCall ==
  /\ pc = "find"
  /\ \E fails \in BOOLEAN :
       LET found == findLastBotComment(issue, fails)
       IN /\ failed' = ~found.ok
          /\ fetchLog' = [NoFetch EXCEPT !.kind = "listComments",
                                        !.out = IF found.comment = NoComment THEN <<>>
                                                ELSE <<found.comment>>]
  /\ pc' = "found"
  /\ UNCHANGED <<world, ctx, issue, parentDeps, parentDependents, phase, idx, cur,
                 failMsgs, hasDepsOut, warnings, upd, prevUpd, reconciled, faultLog,
                 runs, faults>>

NextFB == FindCall

SpecFB == InitFB /\ [][NextFB]_vars

\* C19 as stated: findLastBotComment returns the most recent of all the
\* comments on the entity that the bot wrote and that carry the signature,
\* and none exactly when the entity has no such comment.
C19_MostRecentBotComment ==
  (pc = "found" /\ ~failed) =>
    LET all == comments[issue.id]
        mine == {i \in DOMAIN all : all[i].login = BOT_LOGIN /\ HasSignature(all[i].body)}
    IN IF mine = {} THEN fetchLog.out = <<>>
       ELSE fetchLog.out = <<all[CHOOSE i \in mine : \A j \in mine : j <= i]>>

(***************************************************************************)
(* getDependencyTags on its own: bodies written with the reference formats *)
(* of the README, in one declaration line or spread over several lines.    *)
(***************************************************************************)
MaxRefs == 3
MaxLines == 4
MaxNumber == 2

\* #2, #2EXCLUDED, owner/repo#2, owner/repo/pull/2,
\* https://github.com/owner/repo/pull/2, [text](https://.../pull/2)
QuickRef(n) == Text(<<Sym("#"), Digits(n)>>)
Suffixed(n) == Text(<<Sym("#"), Digits(n), Letters("EXCLUDED")>>)
RepoRef(r, n) ==
  Text(<<Letters(r.owner), Sym("/"), Letters(r.repo), Sym("#"), Digits(n)>>)
PathAtoms(r, kind, n) ==
  <<Letters(r.owner), Sym("/"), Letters(r.repo), Sym("/"), Letters(kind), Sym("/"), Digits(n)>>
UrlAtoms(r, kind, n) ==
  <<Letters("https"), Sym(":"), Sym("/"), Sym("/")>> \o HostName \o <<Sym("/")>>
  \o PathAtoms(r, kind, n)
PathRef(r, kind, n) == Text(PathAtoms(r, kind, n))
UrlRef(r, kind, n) == Text(UrlAtoms(r, kind, n))
Link(r, kind, n) ==
  Text(<<Sym("["), Letters("text"), Sym("]"), Sym("(")>> \o UrlAtoms(r, kind, n) \o <<Sym(")")>>)

\* [PR #m](https://github.com/owner/repo/pull/n): the space in the link text
\* makes two tokens of it.
LinkHead == Text(<<Sym("["), Letters("PR")>>)
LinkTail(m, r, kind, n) ==
  Text(<<Sym("#"), Digits(m), Sym("]"), Sym("(")>> \o UrlAtoms(r, kind, n) \o <<Sym(")")>>)
TitledLink(m, r, kind, n) == <<LinkHead, LinkTail(m, r, kind, n)>>

Repos == {CtxRepo, ExtRepo}

\* One reference in each format, for every repository, kind and number.
FormatRefs ==
  {QuickRef(n) : n \in 1..MaxNumber}
  \cup {RepoRef(r, n) : r \in Repos, n \in 1..MaxNumber}
  \cup UNION {{PathRef(r, k, n), UrlRef(r, k, n), Link(r, k, n)} :
                r \in Repos, k \in IssueTypes, n \in 1..MaxNumber}

\* What a declaration line is put together from.
Items ==
  { <<QuickRef(1)>>, <<QuickRef(2)>>, <<Suffixed(3)>>, <<RepoRef(ExtRepo, 2)>>,
    <<RepoRef(CtxRepo, 1)>>, <<PathRef(ExtRepo, "pull", 4)>>,
    <<UrlRef(ExtRepo, "issues", 5)>>, <<Link(ExtRepo, "pull", 6)>>,
    TitledLink(7, ExtRepo, "pull", 8), <<WordTok>> }

ItemLists == UNION {[1..n -> Items] : n \in 0..MaxRefs}

\* The lines of a body of several lines; the reference on line i is #i.
LineShapes(i) ==
  { <<>>, <<KeyTok>>, <<KeyTok, QuickRef(i)>>, <<QuickRef(i)>>,
    <<WordTok, KeyTok, QuickRef(i)>>, <<KeyGlued(<<Sym("#"), Digits(i)>>)>> }

RECURSIVE BodiesOf(_)
BodiesOf(n) ==
  IF n = 0 THEN {<<>>}
  ELSE {Append(b, l) : b \in BodiesOf(n - 1), l \in LineShapes(n)}

LineBodies == UNION {BodiesOf(n) : n \in 1..MaxLines}

TextBodies ==
  {DependsOn(<<t>>) : t \in FormatRefs}
  \cup {DependsOn(Flatten(l)) : l \in ItemLists}
  \cup LineBodies

InitTX ==
  /\ state = [id \in Ids |-> "open"]
  /\ ctx \in Repos
  /\ issue = [id |-> Tag(ctx, 1), pr |-> TRUE, title |-> "plain", state |-> "open",
              labels |-> {}, repository |-> FALSE]
  /\ \E text \in TextBodies : body = [id \in Ids |-> IF id = Tag(ctx, 1) THEN text ELSE <<>>]
  /\ comments = [id \in Ids |-> <<>>]
  /\ labels = [id \in Ids |-> {}]
  /\ tokenLogin = BOT_LOGIN
  /\ apiRepository = FALSE
  /\ pc = "extract"
  /\ parentDeps = <<>>
  /\ parentDependents = <<>>
  /\ phase = "none"
  /\ idx = 0
  /\ cur = NoCur
  /\ failed = FALSE
  /\ failMsgs = {}
  /\ hasDepsOut = "unset"
  /\ warnings = {}
  /\ upd = NoUpd
  /\ prevUpd = [id \in Ids |-> NoPrev]
  /\ fetchLog = NoFetch
  /\ reconciled = <<>>
  /\ faultLog = {}
  /\ runs = 0
  /\ faults = 0

\* getDependencyTags(issue.body)
ExtractCall ==
  /\ pc = "extract"
  /\ fetchLog' = [NoFetch EXCEPT !.kind = "dependency",
                                 !.tags = getDependencyTags(body[issue.id], ctx)]
  /\ pc' = "extracted"
  /\ UNCHANGED <<world, ctx, issue, parentDeps, parentDependents, phase, idx, cur,
                 outputs, upd, prevUpd, reconciled, faultLog, runs, faults>>

NextTX == ExtractCall

SpecTX == InitTX /\ [][NextTX]_vars

\* The tags of the references on one line, whatever the line belongs to.
LineTagSet(line) ==
  UNION {Range(TokenTags(line[j], Patterns[p], ctx)) : j \in DOMAIN line, p \in DOMAIN Patterns}

\* The flag as the lines define it: the line is not empty, and a line that
\* starts with a key phrase and its colon comes before it or is the line
\* itself, with no empty line in between.
InsideBlock(lines, i) ==
  /\ lines[i] # <<>>
  /\ \E j \in 1..i : IsKeyLine(lines[j]) /\ \A k \in j..i : lines[k] # <<>>

\* C24: the block holds exactly the lines for which the flag is set, in their
\* order, and a reference is in the result exactly when it is on such a line:
\* the blocks of a body are merged, and what follows an empty line is left
\* out until a key phrase comes again.
C24_BlockMachine ==
  pc = "extracted" =>
    LET lines == body[issue.id]
        kept == {i \in DOMAIN lines : InsideBlock(lines, i)}
    IN /\ Range(extractDependencyBlock(lines)) = {lines[i] : i \in kept}
       /\ Len(extractDependencyBlock(lines)) = Cardinality(kept)
       /\ Range(fetchLog.tags) = UNION {LineTagSet(lines[i]) : i \in kept}

\* Two blocks merged, and a reference after an empty line left out.
C24_Witness ==
  /\ pc = "extracted" /\ Len(body[issue.id]) = 4
  /\ LET lines == body[issue.id]
     IN /\ IsKeyLine(lines[1]) /\ lines[2] = <<>> /\ IsKeyLine(lines[4])
        /\ LineTagSet(lines[3]) = {Tag(ctx, 3)}
        /\ fetchLog.tags = <<Tag(ctx, 1), Tag(ctx, 4)>>

\* The tokens of the only line of a body after its key phrase.
Refs == IF Len(body[issue.id]) = 1 /\ IsKeyLine(body[issue.id][1])
        THEN Tail(body[issue.id][1]) ELSE <<>>

\* The reference a token is, by the formats of the README.
Meaning(tok) ==
  IF \E n \in 1..MaxNumber : tok = QuickRef(n)
  THEN {Tag(ctx, n) : n \in {m \in 1..MaxNumber : tok = QuickRef(m)}}
  ELSE {Tag(q[1], q[2]) : q \in {x \in Repos \X (1..(4 * MaxNumber)) :
          \/ tok = RepoRef(x[1], x[2])
          \/ \E k \in IssueTypes :
               tok \in {PathRef(x[1], k, x[2]), UrlRef(x[1], k, x[2]), Link(x[1], k, x[2])}}}

\* C25: in a declaration line of bare numbers, suffixed numbers and
\* owner/repo#N references, #N followed by a letter gives nothing, the #N of
\* owner/repo#N gives nothing of its own, and every other reference gives
\* one tag.
C25_WordBoundary ==
  (pc = "extracted" /\ Refs # <<>>
     /\ \A j \in DOMAIN Refs :
          \/ Refs[j] = Suffixed(3)
          \/ \E n \in 1..MaxNumber : Refs[j] = QuickRef(n)
          \/ \E r \in Repos, n \in 1..MaxNumber : Refs[j] = RepoRef(r, n)) =>
    /\ Range(fetchLog.tags) = UNION {Meaning(Refs[j]) : j \in DOMAIN Refs}
    /\ Len(fetchLog.tags) = Cardinality(Range(fetchLog.tags))

\* #3EXCLUDED ext/lib#2 #1: one tag for ext/lib#2, one for #1, none for the
\* numbers 2 and 3 of the context repository.
C25_Witness ==
  /\ pc = "extracted" /\ ctx = CtxRepo
  /\ Refs = <<Suffixed(3), RepoRef(ExtRepo, 2), QuickRef(1)>>
  /\ Range(fetchLog.tags) = {Tag(ExtRepo, 2), Tag(CtxRepo, 1)}

\* C26: owner/repo#N, owner/repo/pull/N, the full URL and the Markdown link
\* of the URL, each alone after the key phrase, give the one tag
\* {owner, repo, N}; #N alone gives {context owner, context repo, N}.
C26_FormatEquivalence ==
  (pc = "extracted" /\ Len(Refs) = 1) =>
    /\ \A n \in 1..MaxNumber : Refs[1] = QuickRef(n) => fetchLog.tags = <<Tag(ctx, n)>>
    /\ \A r \in Repos, n \in 1..MaxNumber :
         /\ Refs[1] = RepoRef(r, n) => fetchLog.tags = <<Tag(r, n)>>
         /\ \A k \in IssueTypes :
              Refs[1] \in {PathRef(r, k, n), UrlRef(r, k, n), Link(r, k, n)}
                => fetchLog.tags = <<Tag(r, n)>>

\* The Markdown link of an issue of another repository, alone.
C26_Witness ==
  /\ pc = "extracted" /\ ctx = CtxRepo
  /\ Refs = <<Link(ExtRepo, "issues", 2)>>
  /\ fetchLog.tags = <<Tag(ExtRepo, 2)>>

\* The references of a line by the formats of the README; a Markdown link
\* with a title is the reference of its URL.
RECURSIVE LineMeaning(_)
LineMeaning(line) ==
  IF line = <<>> THEN {}
  ELSE IF Len(line) >= 2 /\ line[1] = LinkHead /\ line[2] = LinkTail(7, ExtRepo, "pull", 8)
       THEN {Tag(ExtRepo, 8)} \cup LineMeaning(SubSeq(line, 3, Len(line)))
       ELSE Meaning(line[1]) \cup LineMeaning(Tail(line))

\* C27 as stated: every reference of a declaration line gives exactly its
\* own tag, and a Markdown link gives the tag of its URL only, whatever its
\* title is.
C27_OneTagPerReference ==
  (pc = "extracted" /\ Refs # <<>>) =>
    /\ Range(fetchLog.tags) = LineMeaning(Refs)
    /\ Len(fetchLog.tags) = Cardinality(Range(fetchLog.tags))

\* Where the matches of a tag start in the block: line, token and atom.
Positions(block, tag) ==
  {i * 10000 + j * 100 + TokenMatches(block[i][j], Patterns[p], ctx)[m].at :
     <<i, j, p, m>> \in {q \in (DOMAIN block) \X (1..(2 * MaxRefs + 1)) \X (DOMAIN Patterns) \X (1..2) :
        /\ q[2] \in DOMAIN block[q[1]]
        /\ q[4] \in DOMAIN TokenMatches(block[q[1]][q[2]], Patterns[q[3]], ctx)
        /\ TokenMatches(block[q[1]][q[2]], Patterns[q[3]], ctx)[q[4]].tag = tag}}

FirstPosition(block, tag) ==
  CHOOSE x \in Positions(block, tag) : \A y \in Positions(block, tag) : x <= y

\* C28 as stated: no tag is in the result twice, and the tags are in the
\* order in which their first references stand in the text.
C28_FirstSeenOrder ==
  pc = "extracted" =>
    LET block == extractDependencyBlock(body[issue.id])
        tags == fetchLog.tags
    IN /\ \A i, j \in DOMAIN tags : i # j => tags[i] # tags[j]
       /\ \A i, j \in DOMAIN tags :
            i < j => FirstPosition(block, tags[i]) < FirstPosition(block, tags[j])

(***************************************************************************)
(* The filters of evaluate() on the lists of the payload issue.            *)
(***************************************************************************)
\* The dependencies of the payload issue have just been fetched.
DependenciesFetched == pc = "getDependents" /\ fetchLog.kind = "dependency"

\* C32 as stated: of the open entities fetched for the body of the payload
\* issue, the filter drops the payload issue itself and nothing else; an
\* entity of another repository that bears the payload issue's number stays
\* in the dependency list.
C32_ForeignNumberKept ==
  DependenciesFetched =>
    \A i \in DOMAIN fetchLog.out :
      fetchLog.out[i].id # issue.id => fetchLog.out[i].id \in Range(IdsOf(parentDeps))

(***************************************************************************)
(* The writes of one updateIssue call.                                     *)
(***************************************************************************)
\* The labels that the lists of the last updateIssue call ask for.
RequiredLabels ==
  (IF upd.dependencies # <<>> THEN {BLOCKED_LABEL} ELSE {})
  \cup (IF upd.dependents # <<>> THEN {BLOCKING_LABEL} ELSE {})

\* The last updateIssue call met no failure; the call before it on the same
\* entity had the same lists, posted its comment and then failed at a label
\* request.
RetryAfterLabelFailure ==
  /\ Updated /\ upd.fault = "none" /\ upd.ok /\ upd.target \in Ids
  /\ upd.prev.entity = upd.entity /\ upd.prev.posted /\ ~upd.prev.valid
  /\ upd.prev.dependencies = IdsOf(upd.dependencies)
  /\ upd.prev.dependents = IdsOf(upd.dependents)

\* C34 as stated: the updateIssue call that follows a call which posted its
\* comment and failed at a label request, with the same lists and without a
\* failure of its own, leaves the entity with "blocked" exactly when it has
\* dependencies and "blocking" exactly when it has dependents.
C34_LabelsHeal ==
  RetryAfterLabelFailure => upd.labelsAfter = RequiredLabels

\* The place of a request in handleDependencyUpdate: listComments,
\* postComment, addLabels, removeLabels.
WriteRank(op) ==
  IF op = "listComments" THEN 0
  ELSE IF op = "createComment" THEN 1
  ELSE IF op = "addLabels" THEN 2 ELSE 3

\* The comment that the last updateIssue call built.
PostedComment ==
  [login |-> tokenLogin,
   body |-> createCommentBody(IssueTypeOf(upd.entity \in PullRequests),
                              upd.dependencies, upd.dependents)]

\* C35: the requests of one updateIssue call are sent in the order
\* createComment, addLabels, removeLabel; an entity with open dependencies
\* or dependents, or with a last bot comment, gets no label request before
\* the createComment request; after a failed createComment no label request
\* is sent; and a comment that was posted is on the entity after the call,
\* as the last of its comments, whether or not a label request failed.
C35_WriteOrder ==
  (Updated /\ upd.listed /\ upd.target \in Ids) =>
    /\ \A i, j \in DOMAIN upd.reqs :
         i < j => /\ WriteRank(upd.reqs[i].op) <= WriteRank(upd.reqs[j].op)
                  /\ WriteRank(upd.reqs[i].op) < 3 =>
                       WriteRank(upd.reqs[i].op) < WriteRank(upd.reqs[j].op)
    /\ ((HasReq("addLabels") \/ HasReq("removeLabel"))
        /\ (upd.dependencies # <<>> \/ upd.dependents # <<>> \/ upd.hadBot))
         => HasReq("createComment") /\ upd.posted
    /\ (HasReq("createComment") /\ ~upd.posted)
         => /\ ~HasReq("addLabels") /\ ~HasReq("removeLabel")
            /\ comments[upd.target] = upd.before
    /\ upd.posted
         => /\ HasReq("createComment")
            /\ comments[upd.target] = Append(upd.before, PostedComment)

\* A comment was posted and the addLabels request that followed it failed.
C35_Witness ==
  /\ Updated /\ upd.posted /\ ~upd.ok /\ upd.fault = "add" /\ HasReq("addLabels")
  /\ comments[upd.target] = Append(upd.before, PostedComment)

(***************************************************************************)
(* Runs between which the author of #1 edits its body: #1 is the only      *)
(* entity that declares dependencies.                                      *)
(***************************************************************************)
InitED ==
  /\ Init
  /\ \A id \in Ids \ {c1} : body[id] = <<>>

\* The author gives the issue another body.
EditBody(id) ==
  /\ pc \in {"idle", "done"}
  /\ runs < MaxRuns
  /\ \E b \in BodyChoices(id) \ {body[id]} : body' = [body EXCEPT ![id] = b]
  /\ UNCHANGED <<state, comments, labels, tokenLogin, apiRepository, run, outputs,
                 observed, runs, faults>>

NextED == Next \/ EditBody(c1)

SpecED == InitED /\ [][NextED]_vars

\* The entity declares x as a dependency in its own body.
Declares(id, x) == x \in Range(getDependencyTags(body[id], RepoOf(id)))

\* C33 as stated: every entity in the dependent list of an updateIssue call
\* declares the updated entity as a dependency in its own body at that
\* time.
C33_NoStaleDependents ==
  (Updated /\ upd.listed) =>
    \A i \in DOMAIN upd.dependents : Declares(upd.dependents[i].id, upd.entity)

(***************************************************************************)
(* Two jobs on the same payload issue at the same time: each has its own   *)
(* IssueUpdater with the same lists and runs handleDependencyUpdate; the   *)
(* requests of the two reach the API in any order.                         *)
(***************************************************************************)
Jobs == {1, 2}

\* The lists both jobs computed from the same bodies, states and comments.
Listed(id) == [id |-> id, pr |-> id \in PullRequests, title |-> "plain",
               state |-> "open", labels |-> {}, repository |-> FALSE]
ListChoices(id) == {<<>>, <<Listed(id)>>}

\* labelsToAdd and labelsToRemove of handleDependencyUpdate.
LabelsToAdd(currentLabels, hasDependencies, hasDependents) ==
  (IF hasDependencies /\ BLOCKED_LABEL \notin currentLabels THEN <<BLOCKED_LABEL>> ELSE <<>>)
  \o (IF hasDependents /\ BLOCKING_LABEL \notin currentLabels THEN <<BLOCKING_LABEL>> ELSE <<>>)
LabelsToRemove(currentLabels, hasDependencies, hasDependents) ==
  (IF ~hasDependencies /\ BLOCKED_LABEL \in currentLabels THEN <<BLOCKED_LABEL>> ELSE <<>>)
  \o (IF ~hasDependents /\ BLOCKING_LABEL \in currentLabels THEN <<BLOCKING_LABEL>> ELSE <<>>)

\* newComment of handleDependencyUpdate for the lists of the jobs.
NewComment == createCommentBody(IssueTypeOf(issue.pr), parentDeps, parentDependents)

InitCC ==
  /\ state = [id \in Ids |-> "open"]
  /\ body = [id \in Ids |-> <<>>]
  /\ \E deps \in ListChoices(c2), dependents \in ListChoices(c3), labs \in SUBSET Labels :
       /\ parentDeps = deps
       /\ parentDependents = dependents
       /\ labels = [id \in Ids |-> IF id = c1 THEN labs ELSE {}]
       /\ issue = [id |-> c1, pr |-> TRUE, title |-> "plain", state |-> "open",
                   labels |-> labs, repository |-> FALSE]
       /\ \E before \in {<<>>,
                         <<[login |-> BOT_LOGIN,
                            body |-> createCommentBody("Pull Request", deps, dependents)]>>,
                         <<[login |-> BOT_LOGIN,
                            body |-> createCommentBody("Pull Request", <<Listed(x1)>>, <<>>)]>>} :
            /\ comments = [id \in Ids |-> IF id = c1 THEN before ELSE <<>>]
            /\ upd = [NoUpd EXCEPT !.before = before]
  /\ tokenLogin = BOT_LOGIN
  /\ apiRepository = FALSE
  /\ pc = [j \in Jobs |-> "list"]
  /\ ctx = CtxRepo
  /\ phase = "none"
  /\ idx = 0
  /\ cur = [j \in Jobs |-> NoComment]
  /\ failed = FALSE
  /\ failMsgs = {}
  /\ hasDepsOut = "unset"
  /\ warnings = {}
  /\ prevUpd = [id \in Ids |-> NoPrev]
  /\ fetchLog = NoFetch
  /\ reconciled = <<>>
  /\ faultLog = {}
  /\ runs = 0
  /\ faults = 0

\* const lastBotComment = await this.findLastBotComment(this.issue)
ListComments(j) ==
  /\ pc[j] = "list"
  /\ cur' = [cur EXCEPT ![j] = findLastBotComment(issue, FALSE).comment]
  /\ pc' = [pc EXCEPT ![j] = "post"]
  /\ UNCHANGED <<world, ctx, issue, parentDeps, parentDependents, phase, idx,
                 outputs, observed, runs, faults>>

\* The commentChanged test, and postComment(newComment) in the branch that
\* calls it.
PostComment(j) ==
  /\ pc[j] = "post"
  /\ IF ~commentChanged(cur[j], NewComment)
     THEN pc' = [pc EXCEPT ![j] = "done"] /\ UNCHANGED comments
     ELSE /\ pc' = [pc EXCEPT ![j] = "add"]
          /\ comments' =
               IF ShouldPost(parentDeps # <<>>, parentDependents # <<>>, cur[j] # NoComment)
               THEN [comments EXCEPT ![getIssueInfo(issue)] =
                       Append(@, [login |-> tokenLogin, body |-> NewComment])]
               ELSE comments
  /\ UNCHANGED <<state, body, labels, tokenLogin, apiRepository, ctx, issue, parentDeps,
                 parentDependents, phase, idx, cur, outputs, observed, runs, faults>>

\* addLabels(labelsToAdd) in the branch of open dependencies or dependents.
AddLabels(j) ==
  /\ pc[j] = "add"
  /\ labels' =
       IF parentDeps # <<>> \/ parentDependents # <<>>
       THEN [labels EXCEPT ![getIssueInfo(issue)] =
               @ \cup Range(LabelsToAdd(issue.labels, parentDeps # <<>>, parentDependents # <<>>))]
       ELSE labels
  /\ pc' = [pc EXCEPT ![j] = "remove"]
  /\ UNCHANGED <<state, body, comments, tokenLogin, apiRepository, ctx, issue, parentDeps,
                 parentDependents, phase, idx, cur, outputs, observed, runs, faults>>

\* removeLabels(labelsToRemove)
RemoveLabels(j) ==
  /\ pc[j] = "remove"
  /\ labels' = [labels EXCEPT ![getIssueInfo(issue)] =
                  removeLabels(getIssueInfo(issue),
                               LabelsToRemove(issue.labels, parentDeps # <<>>,
                                              parentDependents # <<>>),
                               @, {}).labels]
  /\ pc' = [pc EXCEPT ![j] = "done"]
  /\ UNCHANGED <<state, body, comments, tokenLogin, apiRepository, ctx, issue, parentDeps,
                 parentDependents, phase, idx, cur, outputs, observed, runs, faults>>

NextCC == \E j \in Jobs : ListComments(j) \/ PostComment(j) \/ AddLabels(j) \/ RemoveLabels(j)

SpecCC == InitCC /\ [][NextCC]_vars

\* C31 as stated: two jobs on the same payload issue with the same inputs
\* post at most one new status comment on it between them, in whatever
\* order their listComments and createComment requests are served.
C31_AtMostOneComment ==
  Len(comments[issue.id]) <= Len(upd.before) + 1

(***************************************************************************)
(* The caching findLastBotComment of the context-based IssueUpdater        *)
(* (src/src/IssueUpdater.ts, lines 109-152): one updater, called several   *)
(* times while comments are added to the issue.                            *)
(***************************************************************************)
MaxCalls == 3

\* A mistaken guard: the refresh parameter is ignored.
findLastBotCommentCachedNoRefresh(cached, comms, refresh, fails) ==
  IF cached # NoComment
  THEN [requested |-> FALSE, threw |-> FALSE, comment |-> cached, cache |-> cached]
  ELSE IF fails
  THEN [requested |-> TRUE, threw |-> TRUE, comment |-> NoComment, cache |-> cached]
  ELSE [requested |-> TRUE, threw |-> FALSE,
        comment |-> LastBotOf(FirstPage(comms)), cache |-> LastBotOf(FirstPage(comms))]

\* findLastBotComment(refresh) of an updater whose field lastBotComment is
\* cached (NoComment stands for undefined), on an issue with the comments
\* comms: whether listComments was requested, whether the call threw, what
\* it returned and what the field holds afterwards.
findLastBotCommentCached(cached, comms, refresh, fails) ==
  IF cached # NoComment /\ ~refresh
  THEN [requested |-> FALSE, threw |-> FALSE, comment |-> cached, cache |-> cached]
  ELSE IF fails
  THEN [requested |-> TRUE, threw |-> TRUE, comment |-> NoComment, cache |-> cached]
  ELSE [requested |-> TRUE, threw |-> FALSE,
        comment |-> LastBotOf(FirstPage(comms)), cache |-> LastBotOf(FirstPage(comms))]

InitCF ==
  /\ state = [id \in Ids |-> "open"]
  /\ body = [id \in Ids |-> <<>>]
  /\ \E m \in 0..MaxTail : \E tail \in [1..m -> CommentPool] :
       comments = [id \in Ids |-> IF id = c1 THEN tail ELSE <<>>]
  /\ labels = [id \in Ids |-> {}]
  /\ tokenLogin = BOT_LOGIN
  /\ apiRepository = FALSE
  /\ pc = "ready"
  /\ ctx = CtxRepo
  /\ issue = [id |-> c1, pr |-> TRUE, title |-> "plain", state |-> "open",
              labels |-> {}, repository |-> FALSE]
  /\ parentDeps = <<>>
  /\ parentDependents = <<>>
  /\ phase = "none"
  /\ idx = 0
  /\ cur = [lastBotComment |-> NoComment]
  /\ failed = FALSE
  /\ failMsgs = {}
  /\ hasDepsOut = "unset"
  /\ warnings = {}
  /\ upd = NoUpd
  /\ prevUpd = [id \in Ids |-> NoPrev]
  /\ fetchLog = [kind |-> "none", refresh |-> FALSE, cachedBefore |-> NoComment,
                 requested |-> FALSE, threw |-> FALSE, out |-> NoComment]
  /\ reconciled = <<>>
  /\ faultLog = {}
  /\ runs = 0
  /\ faults = 0

\* One call of findLastBotComment(refresh).
FindCachedCall ==
  /\ idx < MaxCalls
  /\ \E refresh \in BOOLEAN, fails \in BOOLEAN :
       LET r == findLastBotCommentCached(cur.lastBotComment, comments[issue.id], refresh, fails)
       IN /\ cur' = [lastBotComment |-> r.cache]
          /\ fetchLog' = [kind |-> "find", refresh |-> refresh,
                          cachedBefore |-> cur.lastBotComment,
                          requested |-> r.requested, threw |-> r.threw, out |-> r.comment]
  /\ idx' = idx + 1
  /\ UNCHANGED <<world, pc, ctx, issue, parentDeps, parentDependents, phase,
                 outputs, upd, prevUpd, reconciled, faultLog, runs, faults>>

\* Somebody comments on the issue between two calls.
CommentAdded ==
  /\ Len(comments[issue.id]) < MaxTail
  /\ \E c \in CommentPool : comments' = [comments EXCEPT ![issue.id] = Append(@, c)]
  /\ UNCHANGED <<state, body, labels, tokenLogin, apiRepository, run, outputs, observed,
                 runs, faults>>

NextCF == FindCachedCall \/ CommentAdded

SpecCF == InitCF /\ [][NextCF]_vars

\* C36: findLastBotComment(refresh) requests listComments exactly when the
\* updater has no cached last bot comment or refresh is true; otherwise it
\* returns the cached comment and keeps it; a search that finds no bot
\* comment leaves nothing cached, so the call after it searches again.
C36_CachedLookup ==
  fetchLog.kind = "find" =>
    /\ fetchLog.requested <=> (fetchLog.cachedBefore = NoComment \/ fetchLog.refresh)
    /\ ~fetchLog.requested =>
         /\ fetchLog.out = fetchLog.cachedBefore /\ ~fetchLog.threw
         /\ cur.lastBotComment = fetchLog.cachedBefore
    /\ (fetchLog.requested /\ ~fetchLog.threw) =>
         /\ cur.lastBotComment = fetchLog.out
         /\ fetchLog.out # NoComment =>
              IsBotComment(fetchLog.out) /\ fetchLog.out \in Range(comments[issue.id])

\* A call without refresh returned the cached comment without a request
\* although the issue has a newer bot comment by then.
C36_Witness ==
  /\ fetchLog.kind = "find" /\ ~fetchLog.requested /\ ~fetchLog.refresh
  /\ fetchLog.out # NoComment
  /\ fetchLog.out # LastBotOf(comments[issue.id])

(***************************************************************************)
(* One request through the throttled client (src/src/main.ts, throttle:    *)
(* throttlingConfig): when the answer is a rate limit, the throttling      *)
(* plugin calls onRateLimit or onSecondaryRateLimit with the number of     *)
(* retries made so far for the request, and sends the request again when   *)
(* the handler returns true.                                               *)
(***************************************************************************)
MaxRetryAfter == 2

LimitKinds == {"primary", "secondary"}

\* onRateLimit and onSecondaryRateLimit: the warning, and "return retryCount < 3".
onRateLimit(retryAfter, retryCount) ==
  [warning |-> [kind |-> "primary", retryAfter |-> retryAfter, attempt |-> retryCount + 1],
   retry |-> retryCount < 3]
onSecondaryRateLimit(retryAfter, retryCount) ==
  [warning |-> [kind |-> "secondary", retryAfter |-> retryAfter, attempt |-> retryCount + 1],
   retry |-> retryCount < 3]

InitTH ==
  /\ state = [id \in Ids |-> "open"]
  /\ body = [id \in Ids |-> <<>>]
  /\ comments = [id \in Ids |-> <<>>]
  /\ labels = [id \in Ids |-> {}]
  /\ tokenLogin = BOT_LOGIN
  /\ apiRepository = FALSE
  /\ pc = "send"
  /\ ctx = CtxRepo
  /\ issue = [id |-> c1, pr |-> TRUE, title |-> "plain", state |-> "open",
              labels |-> {}, repository |-> FALSE]
  /\ parentDeps = <<>>
  /\ parentDependents = <<>>
  /\ phase = "none"
  /\ idx = 0
  /\ cur = [attempts |-> 0, retryCount |-> 0, kind |-> "none", retryAfter |-> 0]
  /\ failed = FALSE
  /\ failMsgs = {}
  /\ hasDepsOut = "unset"
  /\ warnings = <<>>
  /\ upd = NoUpd
  /\ prevUpd = [id \in Ids |-> NoPrev]
  /\ fetchLog = NoFetch
  /\ reconciled = <<>>
  /\ faultLog = {}
  /\ runs = 0
  /\ faults = 0

\* The request is sent and answered.
RequestAnswered ==
  /\ pc = "send"
  /\ cur' = [cur EXCEPT !.attempts = @ + 1]
  /\ pc' = "answered"
  /\ UNCHANGED <<world, ctx, issue, parentDeps, parentDependents, phase, idx,
                 outputs, observed, runs, faults>>

\* The request is sent and hits a rate limit.
RequestLimited ==
  /\ pc = "send"
  /\ \E k \in LimitKinds, s \in 1..MaxRetryAfter :
       cur' = [cur EXCEPT !.attempts = @ + 1, !.kind = k, !.retryAfter = s]
  /\ pc' = "limited"
  /\ UNCHANGED <<world, ctx, issue, parentDeps, parentDependents, phase, idx,
                 outputs, observed, runs, faults>>

\* The plugin asks the handler of the limit that was hit; on true it counts
\* the retry and sends the request again, otherwise the request fails.
HandlerCalled ==
  /\ pc = "limited"
  /\ LET h == IF cur.kind = "primary" THEN onRateLimit(cur.retryAfter, cur.retryCount)
              ELSE onSecondaryRateLimit(cur.retryAfter, cur.retryCount)
     IN /\ warnings' = Append(warnings, h.warning)
        /\ IF h.retry
           THEN /\ cur' = [cur EXCEPT !.retryCount = @ + 1]
                /\ pc' = "send"
                /\ UNCHANGED failed
           ELSE /\ pc' = "failed"
                /\ failed' = TRUE
                /\ UNCHANGED cur
  /\ UNCHANGED <<world, ctx, issue, parentDeps, parentDependents, phase, idx,
                 failMsgs, hasDepsOut, observed, runs, faults>>

NextTH == RequestAnswered \/ RequestLimited \/ HandlerCalled

SpecTH == InitTH /\ [][NextTH]_vars

\* C37 as stated: a request is attempted three times at most, and by the
\* third rate limit it has hit, the handler has returned false.
C37_ThreeAttempts ==
  /\ cur.attempts <= 3
  /\ (pc = "failed") => Len(warnings) <= 3
====
